---- MODULE Spec2Model ----
(***************************************************************************)
(* Dispatch core of backend/main.py: hub ownership registry, commit        *)
(* planner, per-truck decision engine, demand escalation, the tick loop    *)
(* and the external operations that mutate world_state.                    *)
(*                                                                         *)
(* Geometry.  Every coordinate lies on the depot's meridian: a position is *)
(* an integer number of 100 km steps north (+) or south (-) of the depot,  *)
(* for which haversine is exactly proportional to the latitude difference. *)
(* Distances are in km, fuel in centilitres (0.1 L/km = 10 cL/km), scores  *)
(* in tenths, so that every quantity of the source stays an integer.       *)
(*                                                                         *)
(* Left out, as nothing modelled reads them: the ai_decisions log, the     *)
(* instructions and disaster notifications, Task.assigned_at, the trucks'  *)
(* current_fuel_used, last_decision_point and completed_deliveries, the    *)
(* hubs' name and priority_cost, and the read-only endpoints.  A disaster  *)
(* request never carries explicit segment indexes.                         *)
(*                                                                         *)
(* Concurrency.  The simulation thread and the request handlers share      *)
(* world_state without a lock.  Under Spec a tick body and a handler are   *)
(* each taken as one step; under SpecRace the statements of                *)
(* assign_hub_to_truck are steps of their own, and thr holds where the     *)
(* loop's thread and a request's thread stand in it (both rest under       *)
(* Spec).  loops_head counts simulation threads about to test              *)
(* simulation_running, loops_sleep those past the test, about to run the   *)
(* tick body.  SpecFlows starts the tick loop and the intensity endpoint   *)
(* in the worlds the rollback of a failed restart passes through.          *)
(***************************************************************************)
EXTENDS Integers, Sequences, FiniteSets, TLC

\* ------------------------------------------------------------------ bounds
MaxOps == 5
MaxTime == 7

\* ------------------------------------------------------------- vocabulary
None == "None"
CENTRAL_HUB_ID == "CENTRAL_DEPOT"
Depot == 0

UNASSIGNED == "UNASSIGNED"
ASSIGNED == "ASSIGNED"
COMPLETED == "COMPLETED"

Priorities == {"Low", "Medium", "High", "Emergency"}

NoTask == [hub_id |-> None, urgency_weight |-> 0]

Task(hub_id, w) == [hub_id |-> hub_id, urgency_weight |-> w]

\* Hub(...) with the model's defaults for the fields a caller does not give.
Hub(id, pos, qty, prio, avail) ==
  [id |-> id, pos |-> pos, demand_quantity |-> qty, demand_priority |-> prio,
   availability |-> avail, delivered |-> FALSE, demand_intensity |-> "Medium",
   ownership_state |-> UNASSIGNED, owner_truck_id |-> None,
   frozen_at_commit |-> FALSE]

\* Truck(...) as upload_trucks builds it: at the depot, full tank, idle.
Truck(id, cap, active, maxcap) ==
  [id |-> id, pos |-> Depot, fuel_capacity |-> cap, fuel_remaining |-> cap,
   active |-> active, assigned_hubs |-> <<>>, route_plan |-> <<>>,
   current_task |-> NoTask, future_task_queue |-> <<>>,
   route |-> <<>>, full_route |-> <<>>, current_route_index |-> 0,
   status |-> "idle", max_capacity |-> maxcap, fuel_efficiency |-> 1,
   blocked_status |-> None]

\* ------------------------------------------------------------- sequences
Abs(x) == IF x < 0 THEN -x ELSE x

Max(a, b) == IF a >= b THEN a ELSE b

Min(a, b) == IF a <= b THEN a ELSE b

Range(s) == {s[i] : i \in 1..Len(s)}

\* Index of the first element with this id, 0 when there is none:
\* next((x for x in xs if x.id == id), None).
RECURSIVE FindFrom(_, _, _)
FindFrom(xs, id, i) ==
  IF i > Len(xs) THEN 0
  ELSE IF xs[i].id = id THEN i ELSE FindFrom(xs, id, i + 1)

Find(xs, id) == FindFrom(xs, id, 1)

\* Stable insertion of x into a sequence of [key, val] pairs sorted ascending
\* by key: x goes after every element whose key is <= its own.
RECURSIVE InsertSorted(_, _)
InsertSorted(s, x) ==
  IF s = <<>> THEN <<x>>
  ELSE IF Head(s).key <= x.key
       THEN <<Head(s)>> \o InsertSorted(Tail(s), x)
       ELSE <<x>> \o s

RECURSIVE SortPairs(_)
SortPairs(s) ==
  IF s = <<>> THEN <<>>
  ELSE InsertSorted(SortPairs(SubSeq(s, 1, Len(s) - 1)), s[Len(s)])

\* list.sort(key=...) is stable: vals in ascending order of keys[i], ties in
\* their original order.
StableSort(vals, keys) ==
  LET sorted == SortPairs([i \in 1..Len(vals) |-> [key |-> keys[i], val |-> vals[i]]])
  IN [i \in 1..Len(vals) |-> sorted[i].val]

\* --------------------------------------------------------------- geometry
\* Great-circle distance in km between two meridian positions.
haversine(a, b) == 100 * Abs(a - b)

\* Fuel (cL) for a distance at FUEL_CONSUMPTION_RATE = 0.1 L/km.
FuelFor(km) == 10 * km

\* The routing provider's polyline from a to b, both ends included (the
\* straight-line fallback's shape, one waypoint per 100 km step).
RECURSIVE get_road_route(_, _)
get_road_route(a, b) ==
  IF a = b THEN <<a>>
  ELSE <<a>> \o get_road_route(IF a < b THEN a + 1 ELSE a - 1, b)

\* ------------------------------------------------------ decision points
get_urgency_weight(intensity) ==
  CASE intensity = "Low" -> 1
    [] intensity = "Medium" -> 2
    [] intensity = "High" -> 4
    [] intensity = "Emergency" -> 10
    [] OTHER -> 2

\* A predicate that forgets the status test ahead of the depot test.
C10_safe_when_moving_at_depot(truck) ==
  IF truck.status = "idle" THEN TRUE ELSE truck.pos = Depot

is_at_safe_decision_point(truck) ==
  IF truck.status = "moving" THEN FALSE
  ELSE IF truck.status = "idle" THEN TRUE
  ELSE truck.pos = Depot

\* Fuel (cL) for visiting hub_ids in order from the truck's position;
\* ids with no hub are skipped.
RECURSIVE RouteKm(_, _, _)
RouteKm(hubs, pos, hub_ids) ==
  IF hub_ids = <<>> THEN 0
  ELSE LET i == Find(hubs, Head(hub_ids)) IN
       IF i = 0 THEN RouteKm(hubs, pos, Tail(hub_ids))
       ELSE haversine(pos, hubs[i].pos) + RouteKm(hubs, hubs[i].pos, Tail(hub_ids))

calculate_route_fuel_cost(hubs, truck, hub_ids) ==
  FuelFor(RouteKm(hubs, truck.pos, hub_ids))

TaskIds(q) == [i \in 1..Len(q) |-> q[i].hub_id]

is_fuel_feasible(hubs, truck, additional_hub_ids) ==
  LET all_hubs == (IF truck.current_task # NoTask
                   THEN <<truck.current_task.hub_id>> ELSE <<>>)
                  \o TaskIds(truck.future_task_queue) \o additional_hub_ids
  IN calculate_route_fuel_cost(hubs, truck, all_hubs) <= truck.fuel_remaining

\* ------------------------------------------------------ hub ownership
is_hub_available_for_assignment(hub) ==
  IF hub.id = CENTRAL_HUB_ID THEN FALSE
  ELSE IF hub.delivered \/ hub.demand_quantity <= 0 THEN FALSE
  ELSE hub.ownership_state = UNASSIGNED

\* An assign that ignores the current owner.
C3_assign_steals(hubs, hub_id, truck_id) ==
  LET i == Find(hubs, hub_id) IN
  IF i = 0 THEN [ok |-> FALSE, hubs |-> hubs]
  ELSE IF hubs[i].ownership_state = COMPLETED THEN [ok |-> FALSE, hubs |-> hubs]
  ELSE [ok |-> TRUE,
        hubs |-> [hubs EXCEPT ![i].ownership_state = ASSIGNED,
                              ![i].owner_truck_id = truck_id]]

assign_hub_to_truck(hubs, hub_id, truck_id) ==
  LET i == Find(hubs, hub_id) IN
  IF i = 0 THEN [ok |-> FALSE, hubs |-> hubs]
  ELSE IF hubs[i].ownership_state = ASSIGNED
       THEN [ok |-> hubs[i].owner_truck_id = truck_id, hubs |-> hubs]
  ELSE IF hubs[i].ownership_state = COMPLETED THEN [ok |-> FALSE, hubs |-> hubs]
  ELSE [ok |-> TRUE,
        hubs |-> [hubs EXCEPT ![i].ownership_state = ASSIGNED,
                              ![i].owner_truck_id = truck_id]]

\* A release that changes the state and keeps the owner.
C2_release_keeps_owner(hubs, hub_id, mark_completed) ==
  LET i == Find(hubs, hub_id) IN
  IF i = 0 THEN hubs
  ELSE IF mark_completed
       THEN [hubs EXCEPT ![i].ownership_state = COMPLETED, ![i].delivered = TRUE]
       ELSE [hubs EXCEPT ![i].ownership_state = UNASSIGNED]

\* A release that marks the hub delivered whatever the flag.
C26_release_marks_delivered(hubs, hub_id, mark_completed) ==
  LET i == Find(hubs, hub_id) IN
  IF i = 0 THEN hubs
  ELSE [hubs EXCEPT ![i].ownership_state =
                      IF mark_completed THEN COMPLETED ELSE UNASSIGNED,
                    ![i].delivered = TRUE,
                    ![i].owner_truck_id = None]

release_hub_ownership(hubs, hub_id, mark_completed) ==
  LET i == Find(hubs, hub_id) IN
  IF i = 0 THEN hubs
  ELSE IF mark_completed
       THEN [hubs EXCEPT ![i].ownership_state = COMPLETED,
                         ![i].delivered = TRUE,
                         ![i].owner_truck_id = None]
       ELSE [hubs EXCEPT ![i].ownership_state = UNASSIGNED,
                         ![i].owner_truck_id = None]

\* The owned hubs' indices, in registry order.
OwnedIdx(hubs, truck_id) ==
  SelectSeq([i \in 1..Len(hubs) |-> i],
            LAMBDA i : hubs[i].ownership_state = ASSIGNED
                       /\ hubs[i].owner_truck_id = truck_id)

get_truck_owned_hubs(hubs, truck_id) ==
  LET idx == OwnedIdx(hubs, truck_id) IN [k \in 1..Len(idx) |-> hubs[idx[k]].id]

is_fuel_feasible_with_return(truck, hub) ==
  truck.fuel_remaining
    >= FuelFor(haversine(truck.pos, hub.pos) + haversine(hub.pos, Depot))

\* The queue after the ownership filter and urgency refresh of the reorder.
RECURSIVE ValidTasks(_, _, _)
ValidTasks(hubs, truck_id, q) ==
  IF q = <<>> THEN <<>>
  ELSE LET i == Find(hubs, Head(q).hub_id) IN
       (IF i # 0 /\ hubs[i].ownership_state = ASSIGNED
                 /\ hubs[i].owner_truck_id = truck_id
        THEN <<Task(Head(q).hub_id, get_urgency_weight(hubs[i].demand_intensity))>>
        ELSE <<>>)
       \o ValidTasks(hubs, truck_id, Tail(q))

\* A reorder that prunes and refreshes the queue and leaves it unsorted.
C32_reorder_without_sort(hubs, truck) ==
  IF ~is_at_safe_decision_point(truck) THEN truck
  ELSE IF truck.future_task_queue = <<>> THEN truck
  ELSE [truck EXCEPT !.future_task_queue =
          ValidTasks(hubs, truck.id, truck.future_task_queue)]

\* Returns the truck; the hub registry is only read.
reorder_task_queue_at_decision_point(hubs, truck) ==
  IF ~is_at_safe_decision_point(truck) THEN truck
  ELSE IF truck.future_task_queue = <<>> THEN truck
  ELSE LET valid_tasks == ValidTasks(hubs, truck.id, truck.future_task_queue) IN
       [truck EXCEPT !.future_task_queue =
          StableSort(valid_tasks,
                     [i \in 1..Len(valid_tasks) |-> 0 - valid_tasks[i].urgency_weight])]

\* ------------------------------------------------------ local decisions
priority_weight(p) ==
  CASE p = "Emergency" -> 5
    [] p = "High" -> 3
    [] p = "Medium" -> 2
    [] p = "Low" -> 1
    [] OTHER -> 2

\* Ten times the source's score.
calculate_hub_score(truck, hub) ==
  LET distance_km == haversine(truck.pos, hub.pos) IN
  10 * priority_weight(hub.demand_priority) * get_urgency_weight(hub.demand_intensity)
    - 5 * distance_km - distance_km * truck.fuel_efficiency

\* First index of cand with the strictly greatest score (the scan with
\* "score > best_score", and the stable descending sort's first element).
RECURSIVE BestOf(_, _, _, _)
BestOf(hubs, truck, cand, best) ==
  IF cand = <<>> THEN best
  ELSE LET i == Head(cand) IN
       IF best = 0 \/ calculate_hub_score(truck, hubs[i]) > calculate_hub_score(truck, hubs[best])
       THEN BestOf(hubs, truck, Tail(cand), i)
       ELSE BestOf(hubs, truck, Tail(cand), best)

BestOwned(hubs, truck) ==
  BestOf(hubs, truck,
         SelectSeq(OwnedIdx(hubs, truck.id),
                   LAMBDA i : hubs[i].demand_quantity > 0 /\ ~hubs[i].delivered
                              /\ is_fuel_feasible_with_return(truck, hubs[i])),
         0)

\* candidate_hubs[0] with the frozen_at_commit test of the loop left out.
C30_candidate_ignores_frozen(hubs, truck) ==
  LET cand == SelectSeq([i \in 1..Len(hubs) |-> i],
                LAMBDA i : hubs[i].id # CENTRAL_HUB_ID
                           /\ is_hub_available_for_assignment(hubs[i])
                           /\ is_fuel_feasible_with_return(truck, hubs[i]))
  IN BestOf(hubs, truck, cand, 0)

\* candidate_hubs[0] after the sort: the best available hub that is not
\* frozen and that the truck can round-trip, 0 when there is none.
BestCandidate(hubs, truck) ==
  LET cand == SelectSeq([i \in 1..Len(hubs) |-> i],
                LAMBDA i : hubs[i].id # CENTRAL_HUB_ID
                           /\ is_hub_available_for_assignment(hubs[i])
                           /\ ~hubs[i].frozen_at_commit
                           /\ is_fuel_feasible_with_return(truck, hubs[i]))
  IN BestOf(hubs, truck, cand, 0)

select_next_hub_locally(hubs, truck) ==
  IF ~is_at_safe_decision_point(truck) THEN [hub |-> None, hubs |-> hubs]
  ELSE IF BestOwned(hubs, truck) # 0
       THEN [hub |-> hubs[BestOwned(hubs, truck)].id, hubs |-> hubs]
  ELSE LET best == BestCandidate(hubs, truck)
       IN IF best = 0 THEN [hub |-> None, hubs |-> hubs]
          ELSE LET r == assign_hub_to_truck(hubs, hubs[best].id, truck.id) IN
               IF r.ok THEN [hub |-> hubs[best].id, hubs |-> r.hubs]
               ELSE [hub |-> None, hubs |-> hubs]

extend_route_if_efficient(hubs, truck) ==
  IF ~is_at_safe_decision_point(truck) THEN [hub |-> None, hubs |-> hubs]
  ELSE IF truck.fuel_remaining - FuelFor(haversine(truck.pos, Depot)) <= 0
       THEN [hub |-> None, hubs |-> hubs]
  ELSE IF BestOwned(hubs, truck) # 0
       THEN [hub |-> hubs[BestOwned(hubs, truck)].id, hubs |-> hubs]
  ELSE LET cand == SelectSeq([i \in 1..Len(hubs) |-> i],
                     LAMBDA i : is_hub_available_for_assignment(hubs[i])
                                /\ ~hubs[i].frozen_at_commit
                                /\ is_fuel_feasible_with_return(truck, hubs[i])
                                /\ 10 * haversine(truck.pos, hubs[i].pos)
                                     < 8 * haversine(hubs[i].pos, Depot))
           best == BestOf(hubs, truck, cand, 0)
       IN IF best = 0 THEN [hub |-> None, hubs |-> hubs]
          ELSE LET r == assign_hub_to_truck(hubs, hubs[best].id, truck.id) IN
               IF r.ok THEN [hub |-> hubs[best].id, hubs |-> r.hubs]
               ELSE [hub |-> None, hubs |-> hubs]

\* ---------------------------------------------------------- commit phase
Inf == 1000 * 1000

Indices(xs) == [i \in 1..Len(xs) |-> i]

Repeat(x, n) == [i \in 1..n |-> x]

\* round(atan2(dlat, dlon) / radians(30)) for a point on the depot meridian
\* (dlon = 0): north is 90 degrees, south -90, the depot's own position 0.
angle_bin(pos) == IF pos > Depot THEN 3 ELSE IF pos < Depot THEN -3 ELSE 0

priority_order(p) ==
  CASE p = "Emergency" -> 0
    [] p = "High" -> 1
    [] p = "Medium" -> 2
    [] p = "Low" -> 3
    [] OTHER -> 2

\* The corridor keys in the order the defaultdict first sees them.
RECURSIVE CorridorKeys(_, _, _)
CorridorKeys(hubs, req, seen) ==
  IF req = <<>> THEN seen
  ELSE LET b == angle_bin(hubs[Head(req)].pos) IN
       CorridorKeys(hubs, Tail(req),
                    IF b \in Range(seen) THEN seen ELSE Append(seen, b))

\* One corridor's hubs in registry order, the sort left out.
C34_corridor_in_registry_order(hubs, req, b) ==
  SelectSeq(req, LAMBDA i : angle_bin(hubs[i].pos) = b)

\* One corridor's hubs (indices), sorted by (priority class, distance).
CorridorHubs(hubs, req, b) ==
  LET members == SelectSeq(req, LAMBDA i : angle_bin(hubs[i].pos) = b) IN
  StableSort(members,
             [k \in 1..Len(members) |->
                priority_order(hubs[members[k]].demand_priority) * Inf
                + haversine(Depot, hubs[members[k]].pos)])

HasSpace(truck) == Len(truck.route_plan) < truck.max_capacity

ActiveIdx(trucks) == SelectSeq(Indices(trucks), LAMBDA i : trucks[i].active)

\* First active truck with room in its route plan, 0 when there is none.
FirstWithSpace(trucks) ==
  LET c == SelectSeq(ActiveIdx(trucks), LAMBDA i : HasSpace(trucks[i])) IN
  IF c = <<>> THEN 0 ELSE Head(c)

CorridorCost(hubs, truck, first_hub) ==
  IF truck.route_plan = <<>> THEN haversine(Depot, first_hub.pos)
  ELSE LET j == Find(hubs, truck.route_plan[Len(truck.route_plan)]) IN
       IF j = 0 THEN Inf ELSE haversine(hubs[j].pos, first_hub.pos)

\* The scan "if cost < min_cost" over the active trucks with room.
RECURSIVE PickCorridorTruck(_, _, _, _, _)
PickCorridorTruck(hubs, trucks, cand, first_hub, best) ==
  IF cand = <<>> THEN best
  ELSE LET t == Head(cand)
           cost == CorridorCost(hubs, trucks[t], first_hub)
           min_cost == IF best = 0 THEN Inf
                       ELSE CorridorCost(hubs, trucks[best], first_hub)
       IN PickCorridorTruck(hubs, trucks, Tail(cand), first_hub,
            IF HasSpace(trucks[t]) /\ cost < min_cost THEN t ELSE best)

\* assign_hub_to_truck, then one route_plan slot per unit of deliverable
\* demand while the truck has room.
CommitAssign(st, hub_idx, t) ==
  LET hub == st.hubs[hub_idx]
      r == assign_hub_to_truck(st.hubs, hub.id, st.trucks[t].id)
      demand_count == Min(hub.demand_quantity, hub.availability)
      room == st.trucks[t].max_capacity - Len(st.trucks[t].route_plan)
      n == Max(0, Min(demand_count, room))
  IN IF r.ok
     THEN [hubs |-> r.hubs,
           trucks |-> [st.trucks EXCEPT ![t].route_plan = @ \o Repeat(hub.id, n)],
           assigned |-> st.assigned \cup {hub.id}]
     ELSE st

RECURSIVE AssignCorridor(_, _, _)
AssignCorridor(st, corridor_truck, corridor_hubs) ==
  IF corridor_hubs = <<>> THEN st
  ELSE LET full == ~HasSpace(st.trucks[corridor_truck])
           alt == FirstWithSpace(st.trucks)
       IN IF full /\ alt = 0
          THEN AssignCorridor(st, corridor_truck, Tail(corridor_hubs))
          ELSE LET t == IF full THEN alt ELSE corridor_truck IN
               AssignCorridor(CommitAssign(st, Head(corridor_hubs), t), t,
                              Tail(corridor_hubs))

RECURSIVE Phase1(_, _, _)
Phase1(st, req, keys) ==
  IF keys = <<>> THEN st
  ELSE LET corridor_hubs == CorridorHubs(st.hubs, req, Head(keys))
           corridor_truck == PickCorridorTruck(st.hubs, st.trucks, ActiveIdx(st.trucks),
                                               st.hubs[Head(corridor_hubs)], 0)
       IN IF corridor_truck = 0 THEN Phase1(st, req, Tail(keys))
          ELSE Phase1(AssignCorridor(st, corridor_truck, corridor_hubs), req, Tail(keys))

RECURSIVE Phase2(_, _)
Phase2(st, unassigned) ==
  IF unassigned = <<>> THEN st
  ELSE LET best_truck == FirstWithSpace(st.trucks) IN
       Phase2(IF best_truck = 0 THEN st
              ELSE CommitAssign(st, Head(unassigned), best_truck),
              Tail(unassigned))

\* A commit that skips the validation of phase 3.
C5_CommitUnvalidated(hubs, req) == TRUE

\* Phase 3: the commit stands only if every hub requiring assignment is ASSIGNED.
CommitValid(hubs, req) ==
  \A k \in 1..Len(req) : hubs[req[k]].ownership_state = ASSIGNED

\* Returns [ok, hubs, trucks, initial]: the result, the registries as the
\* call leaves them, and initial_hubs_with_demand.
assign_hubs_to_trucks(hubs, trucks, initial) ==
  LET req == SelectSeq(Indices(hubs),
                       LAMBDA i : hubs[i].id # CENTRAL_HUB_ID
                                  /\ hubs[i].demand_quantity > 0)
  IN IF req = <<>>
     THEN [ok |-> TRUE, hubs |-> hubs, initial |-> initial,
           trucks |-> [i \in 1..Len(trucks) |->
                         [trucks[i] EXCEPT !.route_plan = <<>>,
                                           !.assigned_hubs = <<>>,
                                           !.status = "idle"]]]
     ELSE LET reset == [i \in 1..Len(trucks) |->
                          IF trucks[i].active
                          THEN [trucks[i] EXCEPT !.route_plan = <<>>,
                                                 !.assigned_hubs = <<>>,
                                                 !.status = "idle"]
                          ELSE trucks[i]]
          IN IF ActiveIdx(reset) = <<>>
             THEN [ok |-> FALSE, hubs |-> hubs, trucks |-> reset, initial |-> initial]
             ELSE LET p1 == Phase1([hubs |-> hubs, trucks |-> reset, assigned |-> {}],
                                   req, CorridorKeys(hubs, req, <<>>))
                      p2 == Phase2(p1, SelectSeq(req, LAMBDA i : hubs[i].id \notin p1.assigned))
                  IN IF ~CommitValid(p2.hubs, req)
                     THEN [ok |-> FALSE, hubs |-> p2.hubs, trucks |-> p2.trucks,
                           initial |-> initial]
                     ELSE [ok |-> TRUE,
                           hubs |-> [i \in 1..Len(hubs) |->
                                       IF hubs[i].id # CENTRAL_HUB_ID
                                          /\ hubs[i].demand_quantity > 0
                                       THEN [p2.hubs[i] EXCEPT !.frozen_at_commit = TRUE]
                                       ELSE p2.hubs[i]],
                           trucks |-> p2.trucks,
                           initial |-> [k \in 1..Len(req) |-> hubs[req[k]].id]]

\* ------------------------------------------------------------ disasters
NoIdx == 0 - 1

\* Disaster(...) as create_disaster builds it; traffic_severity keeps its
\* default 1.5 (in tenths), active its default True.
Disaster(id, type, pos, radius_km, route_id, start_idx, end_idx) ==
  [id |-> id, disaster_type |-> type, pos |-> pos, radius_km |-> radius_km,
   active |-> TRUE, affected_route_id |-> route_id,
   affected_segment_start_idx |-> start_idx,
   affected_segment_end_idx |-> end_idx, traffic_severity |-> 15]

contains_point(disaster, pos) == haversine(disaster.pos, pos) <= disaster.radius_km

\* The "moving" branch's scan of the disaster list at the truck's new
\* position: the fuel multiplier (tenths) and whether a road block stops it.
\* A scan that lets trucks drive through road blocks.
C16_road_block_ignored(ds, pos, acc) == acc

RECURSIVE MovingEffects(_, _, _)
MovingEffects(ds, pos, acc) ==
  IF ds = <<>> THEN acc
  ELSE LET d == Head(ds)
           hit == d.active /\ contains_point(d, pos)
       IN MovingEffects(Tail(ds), pos,
            IF ~hit THEN acc
            ELSE IF d.disaster_type = "rain" THEN [acc EXCEPT !.mult = 11]
            ELSE IF d.disaster_type = "traffic"
                 THEN [acc EXCEPT !.mult = d.traffic_severity]
            ELSE IF d.disaster_type = "road_block" THEN [acc EXCEPT !.blocked = TRUE]
            ELSE acc)

\* The "returning" branch's scan: traffic and road blocks count only when
\* bound to this truck's route segment; rain stays radius-based.
RECURSIVE ReturningEffects(_, _, _)
ReturningEffects(ds, truck, acc) ==
  IF ds = <<>> THEN acc
  ELSE LET d == Head(ds)
           bound == d.affected_route_id = truck.id
                    /\ d.affected_segment_start_idx # NoIdx
                    /\ d.affected_segment_end_idx # NoIdx
                    /\ Len(truck.full_route) > d.affected_segment_end_idx
                    /\ contains_point(d, truck.pos)
       IN ReturningEffects(Tail(ds), truck,
            IF ~d.active THEN acc
            ELSE IF d.disaster_type \in {"traffic", "road_block"}
                 THEN (IF ~bound THEN acc
                       ELSE IF d.disaster_type = "traffic"
                            THEN [acc EXCEPT !.mult = d.traffic_severity]
                            ELSE [acc EXCEPT !.blocked = TRUE])
            ELSE IF contains_point(d, truck.pos) /\ d.disaster_type = "rain"
                 THEN [acc EXCEPT !.mult = 11]
            ELSE acc)

NoEffects == [mult |-> 10, blocked |-> FALSE]

\* One waypoint forward: position, index, fuel for the segment, and the stop
\* at a road block.  segment_km * 0.1 L/km * multiplier, never below zero.
Advance(truck, effects, segment_km) ==
  LET t1 == IF effects.blocked
            THEN [truck EXCEPT !.blocked_status = "BLOCKED_WAITING_OVERRIDE",
                               !.status = "idle", !.route = <<>>]
            ELSE truck
  IN [t1 EXCEPT !.fuel_remaining = Max(0, @ - segment_km * effects.mult)]

\* ------------------------------------------------------------ tick loop
\* A world in the middle of a tick: the registries and whether the loop's
\* thread has died of an uncaught exception.
\* The idle branch from the return of select_next_hub_locally on: r is
\* what it returned, [hub, hubs].
Dispatch(w, ti, r) ==
  LET truck == w.trucks[ti]
      j == Find(r.hubs, r.hub)
      t2 == IF r.hub # None /\ j # 0
            THEN [truck EXCEPT !.current_task =
                    Task(r.hub, get_urgency_weight(r.hubs[j].demand_intensity))]
            ELSE truck
      i == Find(r.hubs, t2.current_task.hub_id)
  IN IF t2.current_task = NoTask
     THEN [w EXCEPT !.hubs = r.hubs, !.trucks[ti] = t2]
     ELSE IF i = 0 \/ r.hubs[i].demand_quantity <= 0
     THEN [w EXCEPT !.hubs = r.hubs,
                    !.trucks[ti] = [t2 EXCEPT !.current_task = NoTask]]
     ELSE [w EXCEPT !.hubs = r.hubs,
                    !.trucks[ti] =
                      [t2 EXCEPT !.route = get_road_route(t2.pos, r.hubs[i].pos),
                                 !.full_route = get_road_route(t2.pos, r.hubs[i].pos),
                                 !.current_route_index = 0,
                                 !.status = "moving"]]

IdleStep(w, ti) ==
  LET truck == w.trucks[ti] IN
  IF truck.future_task_queue # <<>>
  THEN LET t1 == reorder_task_queue_at_decision_point(w.hubs, truck) IN
       IF t1.future_task_queue = <<>>
       THEN \* pop(0) from an empty list: IndexError ends the loop's thread
            [w EXCEPT !.trucks[ti] = t1, !.crashed = TRUE]
       ELSE LET t2 == [t1 EXCEPT !.current_task = Head(t1.future_task_queue),
                                 !.future_task_queue = Tail(t1.future_task_queue)]
                i == Find(w.hubs, t2.current_task.hub_id)
            IN IF i = 0 \/ w.hubs[i].demand_quantity <= 0
               THEN [w EXCEPT !.trucks[ti] = [t2 EXCEPT !.current_task = NoTask]]
               ELSE [w EXCEPT !.trucks[ti] =
                       [t2 EXCEPT !.route = get_road_route(t2.pos, w.hubs[i].pos),
                                  !.full_route = get_road_route(t2.pos, w.hubs[i].pos),
                                  !.current_route_index = 0,
                                  !.status = "moving"]]
  ELSE Dispatch(w, ti, select_next_hub_locally(w.hubs, truck))

\* Arrival at the hub: deliver one unit, release on zero, then extend, go
\* idle for the queue, or turn back to the depot.  The three route buffers
\* are cleared at the end of every arrival.
ArriveAtHub(w, ti) ==
  LET truck == w.trucks[ti] IN
  IF truck.current_task = NoTask
  THEN [w EXCEPT !.trucks[ti].status = "idle"]
  ELSE LET i == Find(w.hubs, truck.current_task.hub_id)
           delivers == i # 0 /\ w.hubs[i].demand_quantity > 0
           h1 == IF delivers
                 THEN [w.hubs EXCEPT ![i].demand_quantity = Max(0, @ - 1)]
                 ELSE w.hubs
           h2 == IF delivers /\ h1[i].demand_quantity = 0
                 THEN release_hub_ownership(h1, h1[i].id, TRUE)
                 ELSE h1
           t1 == [truck EXCEPT !.current_task = NoTask]
           r == IF i # 0 THEN extend_route_if_efficient(h2, t1)
                ELSE [hub |-> None, hubs |-> h2]
           j == Find(r.hubs, r.hub)
           t2 == IF r.hub # None
                 THEN (IF j # 0
                       THEN [t1 EXCEPT !.current_task =
                               Task(r.hub, get_urgency_weight(r.hubs[j].demand_intensity)),
                                       !.status = "idle"]
                       ELSE t1)
                 ELSE IF t1.future_task_queue # <<>>
                      THEN [t1 EXCEPT !.status = "idle"]
                      ELSE [t1 EXCEPT !.status = "returning"]
       IN [w EXCEPT !.hubs = r.hubs,
                    !.trucks[ti] = [t2 EXCEPT !.route = <<>>, !.full_route = <<>>,
                                              !.current_route_index = 0]]

MovingStep(w, ti, disasters) ==
  LET truck == w.trucks[ti] IN
  IF truck.current_route_index < Len(truck.route)
  THEN LET p == truck.route[truck.current_route_index + 1]
           t1 == [truck EXCEPT !.pos = p, !.current_route_index = @ + 1]
       IN [w EXCEPT !.trucks[ti] =
             Advance(t1, MovingEffects(disasters, p, NoEffects),
                     haversine(truck.pos, p))]
  ELSE ArriveAtHub(w, ti)

ReturningStep(w, ti, disasters) ==
  LET truck == w.trucks[ti] IN
  IF truck.current_route_index < Len(truck.route)
  THEN LET p == truck.route[truck.current_route_index + 1]
           t1 == [truck EXCEPT !.pos = p, !.current_route_index = @ + 1]
       IN [w EXCEPT !.trucks[ti] =
             Advance(t1, ReturningEffects(disasters, t1, NoEffects),
                     haversine(truck.pos, p))]
  ELSE [w EXCEPT !.trucks[ti] =
          [truck EXCEPT !.pos = Depot, !.status = "idle",
                        !.fuel_remaining = truck.fuel_capacity,
                        !.route = <<>>, !.full_route = <<>>,
                        !.current_route_index = 0]]

ProcessTruck(w, ti, disasters) ==
  LET truck == w.trucks[ti] IN
  IF ~truck.active THEN w
  ELSE IF truck.status = "idle" THEN IdleStep(w, ti)
  ELSE IF truck.status = "moving" THEN MovingStep(w, ti, disasters)
  ELSE IF truck.status = "returning" THEN ReturningStep(w, ti, disasters)
  ELSE w

\* for truck in world_state.trucks, in list order; an exception ends the pass.
RECURSIVE ProcessFrom(_, _, _)
ProcessFrom(w, ti, disasters) ==
  IF ti > Len(w.trucks) \/ w.crashed THEN w
  ELSE ProcessFrom(ProcessTruck(w, ti, disasters), ti + 1, disasters)

TickBody(hubs, trucks, disasters) ==
  ProcessFrom([hubs |-> hubs, trucks |-> trucks, crashed |-> FALSE], 1, disasters)

\* ------------------------------------------------------- escalation
\* The scan "if cost < best_cost" over the active trucks that can round-trip
\* the hub: distance + 50 per queued task + 100 when not at a decision point.
EscalationCost(truck, hub) ==
  haversine(truck.pos, hub.pos) + Len(truck.future_task_queue) * 50
    + (IF is_at_safe_decision_point(truck) THEN 0 ELSE 100)

RECURSIVE BestTruck(_, _, _, _)
BestTruck(trucks, hub, ti, best) ==
  IF ti > Len(trucks) THEN best
  ELSE BestTruck(trucks, hub, ti + 1,
         IF trucks[ti].active /\ is_fuel_feasible_with_return(trucks[ti], hub)
            /\ (best = 0 \/ EscalationCost(trucks[ti], hub)
                              < EscalationCost(trucks[best], hub))
         THEN ti ELSE best)

SetUrgency(queue, hub_id, w) ==
  [k \in 1..Len(queue) |->
     IF queue[k].hub_id = hub_id THEN [queue[k] EXCEPT !.urgency_weight = w]
     ELSE queue[k]]

\* An escalation that never looks for a truck.
C11_escalation_ignored(hubs, trucks, escalated_hub_id) ==
  [hubs |-> hubs, trucks |-> trucks]

\* An escalation that hands the hub to a truck other than its owner.
C12_escalation_reassigns(hubs, trucks, escalated_hub_id) ==
  LET i == Find(hubs, escalated_hub_id)
      others == IF i = 0 THEN {}
                ELSE {t \in 1..Len(trucks) : trucks[t].id # hubs[i].owner_truck_id}
  IN IF others = {} THEN [hubs |-> hubs, trucks |-> trucks]
     ELSE LET b == CHOOSE t \in others : TRUE IN
          [hubs |-> [hubs EXCEPT ![i].ownership_state = ASSIGNED,
                                 ![i].owner_truck_id = trucks[b].id],
           trucks |-> [trucks EXCEPT ![b].future_task_queue =
                         Append(@, Task(escalated_hub_id,
                                        get_urgency_weight(hubs[i].demand_intensity)))]]

\* The new task goes to truck b: its current task when it is idle without
\* one, else the end of its queue, reordered at a decision point.
GiveTask(hubs, trucks, b, new_task) ==
  IF trucks[b].status = "idle" /\ trucks[b].current_task = NoTask
  THEN [trucks EXCEPT ![b].current_task = new_task]
  ELSE LET t1 == [trucks[b] EXCEPT !.future_task_queue = Append(@, new_task)]
       IN [trucks EXCEPT ![b] =
             IF is_at_safe_decision_point(t1)
             THEN reorder_task_queue_at_decision_point(hubs, t1)
             ELSE t1]

\* Returns [hubs, trucks].
handle_demand_escalation(hubs, trucks, escalated_hub_id) ==
  LET same == [hubs |-> hubs, trucks |-> trucks]
      i == Find(hubs, escalated_hub_id)
  IN IF i = 0 THEN same
     ELSE LET hub == hubs[i]
              urgency == get_urgency_weight(hub.demand_intensity)
          IN IF hub.ownership_state = ASSIGNED
             THEN LET o == Find(trucks, hub.owner_truck_id) IN
                  IF o = 0 THEN same
                  ELSE LET t1 == [trucks[o] EXCEPT !.future_task_queue =
                                    SetUrgency(@, escalated_hub_id, urgency)]
                       IN [hubs |-> hubs,
                           trucks |-> [trucks EXCEPT ![o] =
                             IF is_at_safe_decision_point(t1)
                             THEN reorder_task_queue_at_decision_point(hubs, t1)
                             ELSE t1]]
             ELSE IF hub.ownership_state # UNASSIGNED THEN same
             ELSE IF hub.frozen_at_commit THEN same
             ELSE LET b == BestTruck(trucks, hub, 1, 0) IN
                  IF b = 0 THEN same
                  ELSE LET r == assign_hub_to_truck(hubs, escalated_hub_id, trucks[b].id)
                           new_task == Task(escalated_hub_id, urgency)
                       IN IF ~r.ok THEN same
                          ELSE [hubs |-> r.hubs,
                                trucks |-> GiveTask(r.hubs, trucks, b, new_task)]

\* ---------------------------------------------------- start-up conversion
RECURSIVE PlanTasks(_, _)
PlanTasks(hubs, route_plan) ==
  IF route_plan = <<>> THEN <<>>
  ELSE LET i == Find(hubs, Head(route_plan)) IN
       (IF i # 0
        THEN <<Task(Head(route_plan), get_urgency_weight(hubs[i].demand_intensity))>>
        ELSE <<>>)
       \o PlanTasks(hubs, Tail(route_plan))

initialize_task_queues_from_route_plans(hubs, trucks) ==
  [i \in 1..Len(trucks) |->
     IF ~trucks[i].active THEN trucks[i]
     ELSE LET q == PlanTasks(hubs, trucks[i].route_plan) IN
          IF q # <<>> /\ trucks[i].status = "idle"
          THEN [trucks[i] EXCEPT !.current_task = Head(q), !.future_task_queue = Tail(q)]
          ELSE [trucks[i] EXCEPT !.current_task = NoTask, !.future_task_queue = q]]

\* The rollback start_sim performs when the commit fails.
RollbackHubs(hubs) ==
  [i \in 1..Len(hubs) |->
     IF hubs[i].id # CENTRAL_HUB_ID
     THEN [hubs[i] EXCEPT !.ownership_state = UNASSIGNED,
                          !.owner_truck_id = None,
                          !.frozen_at_commit = FALSE]
     ELSE hubs[i]]

RollbackTrucks(trucks) ==
  [i \in 1..Len(trucks) |->
     [trucks[i] EXCEPT !.route_plan = <<>>, !.future_task_queue = <<>>,
                       !.current_task = NoTask]]

\* ------------------------------------------------------------ the world
VARIABLES hubs, trucks, disasters, simulation_running, simulation_time,
          initial_hubs_with_demand, simulation_phase, hubs_frozen,
          loops_head, loops_sleep, nops, thr

vars == <<hubs, trucks, disasters, simulation_running, simulation_time,
          initial_hubs_with_demand, simulation_phase, hubs_frozen,
          loops_head, loops_sleep, nops, thr>>

\* The fleets a CSV upload may carry (fuel in cL: 60 L and 20 L tanks).
FleetA == <<Truck("T1", 6000, TRUE, 100), Truck("T2", 2000, TRUE, 100)>>

FleetB == <<Truck("T3", 2000, TRUE, 100)>>

FleetC == <<Truck("T3", 2000, TRUE, 1), Truck("T2", 6000, FALSE, 100)>>

Fleets == {FleetA, FleetB, FleetC}

\* The fixed seed set of create_random_hubs: ids, demand, priority and
\* availability as in the source, coordinates placed on the meridian.
FixedHubs == <<Hub("H1", 2, 1, "High", 20), Hub("H2", 0 - 1, 1, "Medium", 20),
               Hub("H3", 1, 1, "Medium", 20)>>

HubRequests == {[pos |-> 1, qty |-> 2, prio |-> "Low", avail |-> 20],
                [pos |-> 0 - 2, qty |-> 0, prio |-> "Emergency", avail |-> 20]}

DemandUpdates == {[qty |-> 0, prio |-> "Low"], [qty |-> 1, prio |-> "Emergency"],
                  [qty |-> 2, prio |-> "Medium"]}

Intensities == {"Low", "Emergency", "Urgent"}

DisasterTypes == {"rain", "traffic", "road_block", "fog"}

DisasterSites == {0 - 1, 1, 2}

OverrideActions == {"clear_road", "return_to_depot", "resume"}

HubIds == {hubs[i].id : i \in 1..Len(hubs)} \cup {"NOPE"}

TruckIds == {trucks[i].id : i \in 1..Len(trucks)} \cup {"NOPE"}

\* Where a thread stands inside a call of assign_hub_to_truck and what the
\* call has read and returned. pc: "idle" outside an operation, "next" at
\* the head of the tick's for loop, "check" / "set_state" / "set_owner"
\* before the statements of those names, "returned" after the call.
ThreadAt(pc, ti, hub_id, truck_id, weight, seen, ok) ==
  [pc |-> pc, ti |-> ti, hub_id |-> hub_id, truck_id |-> truck_id,
   weight |-> weight, seen |-> seen, ok |-> ok]

NothingSeen == [ownership_state |-> None, owner_truck_id |-> None]

Resting == ThreadAt("idle", 0, None, None, 0, NothingSeen, FALSE)

Init ==
  /\ hubs = <<>>
  /\ trucks = <<>>
  /\ disasters = <<>>
  /\ simulation_running = FALSE
  /\ simulation_time = 0
  /\ initial_hubs_with_demand = <<>>
  /\ simulation_phase = "pre_start"
  /\ hubs_frozen = FALSE
  /\ loops_head = 0
  /\ loops_sleep = 0
  /\ nops = 0
  /\ thr = [sim |-> Resting, req |-> Resting]

\* An external operation that was accepted.
Op == nops < MaxOps /\ nops' = nops + 1 /\ UNCHANGED thr

\* ---------------------------------------------------------- the tick loop
\* while world_state.simulation_running: a loop at the head of its body
\* either goes to sleep or ends.
LoopCheck ==
  /\ loops_head > 0
  /\ loops_head' = loops_head - 1
  /\ loops_sleep' = IF simulation_running THEN loops_sleep + 1 ELSE loops_sleep
  /\ UNCHANGED <<hubs, trucks, disasters, simulation_running, simulation_time,
                 initial_hubs_with_demand, simulation_phase, hubs_frozen, nops, thr>>

\* time.sleep(1) is over: the clock advances and every truck is processed.
Tick ==
  /\ loops_sleep > 0
  /\ simulation_time < MaxTime
  /\ LET w == TickBody(hubs, trucks, disasters) IN
     /\ hubs' = w.hubs
     /\ trucks' = w.trucks
     /\ loops_sleep' = loops_sleep - 1
     /\ loops_head' = IF w.crashed THEN loops_head ELSE loops_head + 1
  /\ simulation_time' = simulation_time + 1
  /\ UNCHANGED <<disasters, simulation_running, initial_hubs_with_demand,
                 simulation_phase, hubs_frozen, nops, thr>>

\* ------------------------------------------------- external operations
upload_trucks(fleet) ==
  /\ Op
  /\ trucks' = fleet
  /\ UNCHANGED <<hubs, disasters, simulation_running, simulation_time,
                 initial_hubs_with_demand, simulation_phase, hubs_frozen,
                 loops_head, loops_sleep>>

start_sim ==
  /\ Op
  /\ LET r == assign_hubs_to_trucks(hubs, trucks, initial_hubs_with_demand) IN
     IF ~r.ok
     THEN /\ hubs_frozen' = FALSE
          /\ simulation_phase' = "pre_start"
          /\ hubs' = RollbackHubs(r.hubs)
          /\ trucks' = RollbackTrucks(r.trucks)
          /\ initial_hubs_with_demand' = r.initial
          /\ UNCHANGED <<simulation_running, loops_head>>
     ELSE /\ hubs_frozen' = TRUE
          /\ simulation_phase' = "executing"
          /\ hubs' = r.hubs
          /\ trucks' = initialize_task_queues_from_route_plans(r.hubs, r.trucks)
          /\ initial_hubs_with_demand' = r.initial
          /\ simulation_running' = TRUE
          /\ loops_head' = loops_head + 1
  /\ UNCHANGED <<disasters, simulation_time, loops_sleep>>

stop_sim ==
  /\ Op
  /\ simulation_running' = FALSE
  /\ UNCHANGED <<hubs, trucks, disasters, simulation_time,
                 initial_hubs_with_demand, simulation_phase, hubs_frozen,
                 loops_head, loops_sleep>>

LiveNames == <<"LIVE_1", "LIVE_2", "LIVE_3", "LIVE_4", "LIVE_5", "LIVE_6",
               "LIVE_7", "LIVE_8">>

\* LIVE_<n> for the least n >= 1 not in use.
RECURSIVE LiveId(_, _)
LiveId(ids, n) ==
  IF LiveNames[n] \in ids THEN LiveId(ids, n + 1) ELSE LiveNames[n]

create_hub_manual(req) ==
  /\ ~hubs_frozen
  /\ Op
  /\ LET new_hub == Hub(LiveId({hubs[i].id : i \in 1..Len(hubs)}, 1), req.pos,
                        req.qty, req.prio, req.avail)
     IN hubs' = IF hubs # <<>> /\ hubs[1].id = CENTRAL_HUB_ID
                THEN <<hubs[1], new_hub>> \o Tail(hubs)
                ELSE Append(hubs, new_hub)
  /\ UNCHANGED <<trucks, disasters, simulation_running, simulation_time,
                 initial_hubs_with_demand, simulation_phase, hubs_frozen,
                 loops_head, loops_sleep>>

create_random_hubs ==
  /\ Op
  /\ hubs' = SelectSeq(hubs, LAMBDA h : h.id = CENTRAL_HUB_ID) \o FixedHubs
  /\ UNCHANGED <<trucks, disasters, simulation_running, simulation_time,
                 initial_hubs_with_demand, simulation_phase, hubs_frozen,
                 loops_head, loops_sleep>>

\* list.remove(x): the first occurrence goes.
RemoveFirst(s, x) ==
  IF x \notin Range(s) THEN s
  ELSE LET k == CHOOSE k \in 1..Len(s) : s[k] = x /\ \A j \in 1..(k - 1) : s[j] # x
       IN SubSeq(s, 1, k - 1) \o SubSeq(s, k + 1, Len(s))

\* An unknown hub id is answered with 404 before anything is written.
update_hub_demand(hub_id, upd) ==
  /\ hub_id # CENTRAL_HUB_ID
  /\ Op
  /\ LET i == Find(hubs, hub_id) IN
     IF i = 0 THEN UNCHANGED <<hubs, trucks>>
     ELSE
     /\ hubs' = [hubs EXCEPT ![i].demand_quantity = upd.qty,
                             ![i].demand_priority = upd.prio,
                             ![i].delivered = IF upd.qty <= 0 THEN TRUE ELSE @]
     /\ trucks' = IF upd.qty <= 0
                  THEN [t \in 1..Len(trucks) |->
                          [trucks[t] EXCEPT !.assigned_hubs = RemoveFirst(@, hub_id)]]
                  ELSE trucks
  /\ UNCHANGED <<disasters, simulation_running, simulation_time,
                 initial_hubs_with_demand, simulation_phase, hubs_frozen,
                 loops_head, loops_sleep>>

\* A pass that sorts every truck's queue, wherever the truck is.
C33_refresh_reorders_moving(hs, ts, hub_id, new_weight) ==
  [t \in 1..Len(ts) |->
     LET q == SetUrgency(ts[t].future_task_queue, hub_id, new_weight)
     IN [ts[t] EXCEPT !.future_task_queue =
           StableSort(q, [k \in 1..Len(q) |-> 0 - q[k].urgency_weight])]]

\* The pass over every truck that ends an intensity update while running.
RefreshQueues(hs, ts, hub_id, new_weight) ==
  [t \in 1..Len(ts) |->
     LET t1 == [ts[t] EXCEPT !.future_task_queue = SetUrgency(@, hub_id, new_weight)]
     IN IF is_at_safe_decision_point(t1)
        THEN reorder_task_queue_at_decision_point(hs, t1)
        ELSE t1]

\* An intensity outside the four names is answered with 400 and an unknown
\* hub id with 404, before anything is written.
update_demand_intensity(hub_id, intensity) ==
  /\ hub_id # CENTRAL_HUB_ID
  /\ Op
  /\ LET i == Find(hubs, hub_id)
         old_weight == get_urgency_weight(hubs[i].demand_intensity)
         new_weight == get_urgency_weight(intensity)
         h1 == [hubs EXCEPT ![i].demand_intensity = intensity]
         e == IF new_weight > old_weight
              THEN handle_demand_escalation(h1, trucks, hub_id)
              ELSE [hubs |-> h1, trucks |-> trucks]
     IN IF intensity \notin Priorities \/ i = 0
        THEN UNCHANGED <<hubs, trucks>>
        ELSE IF simulation_running
        THEN /\ hubs' = e.hubs
             /\ trucks' = RefreshQueues(e.hubs, e.trucks, hub_id, new_weight)
        ELSE /\ hubs' = h1
             /\ trucks' = trucks
  /\ UNCHANGED <<disasters, simulation_running, simulation_time,
                 initial_hubs_with_demand, simulation_phase, hubs_frozen,
                 loops_head, loops_sleep>>

\* The legacy assigned_hubs bookkeeping of delete_hub, for one truck.
DeleteFromTruck(truck, hub_id) ==
  LET t1 == [truck EXCEPT !.assigned_hubs = RemoveFirst(@, hub_id)] IN
  IF t1.assigned_hubs # <<>> /\ t1.assigned_hubs[1] = hub_id
  THEN IF Len(t1.assigned_hubs) > 1
       THEN [t1 EXCEPT !.assigned_hubs = Tail(@)]
       ELSE [t1 EXCEPT !.assigned_hubs = <<>>, !.status = "idle",
                       !.route = <<>>, !.full_route = <<>>]
  ELSE t1

\* An unknown hub id is answered with 404 before anything is written.
delete_hub(hub_id) ==
  /\ hub_id # CENTRAL_HUB_ID
  /\ Op
  /\ LET t1 == [t \in 1..Len(trucks) |-> DeleteFromTruck(trucks[t], hub_id)]
         h1 == SelectSeq(hubs, LAMBDA h : h.id # hub_id)
         r == assign_hubs_to_trucks(h1, t1, initial_hubs_with_demand)
     IN IF Find(hubs, hub_id) = 0
        THEN UNCHANGED <<hubs, trucks, initial_hubs_with_demand>>
        ELSE IF simulation_running
        THEN /\ hubs' = r.hubs
             /\ trucks' = r.trucks
             /\ initial_hubs_with_demand' = r.initial
        ELSE /\ hubs' = h1
             /\ trucks' = t1
             /\ UNCHANGED initial_hubs_with_demand
  /\ UNCHANGED <<disasters, simulation_running, simulation_time,
                 simulation_phase, hubs_frozen, loops_head, loops_sleep>>

\* Distance (km) from a clicked point to the segment a-b, as
\* point_to_line_distance projects it.
PointToSegKm(p, a, b) ==
  IF p >= Min(a, b) /\ p <= Max(a, b) THEN 0
  ELSE Min(haversine(p, a), haversine(p, b))

\* The nearest route segment over all trucks ("if distance < min_distance"):
\* [km, route_id, start_idx, end_idx], indices counted from 0 as in the source.
RECURSIVE NearestInRoute(_, _, _, _, _)
NearestInRoute(p, truck_id, route_points, k, best) ==
  IF k >= Len(route_points) THEN best
  ELSE LET d == PointToSegKm(p, route_points[k], route_points[k + 1]) IN
       NearestInRoute(p, truck_id, route_points, k + 1,
         IF d < best.km
         THEN [km |-> d, route_id |-> truck_id, start_idx |-> k - 1, end_idx |-> k]
         ELSE best)

RECURSIVE NearestSegment(_, _, _, _)
NearestSegment(p, ts, t, best) ==
  IF t > Len(ts) THEN best
  ELSE LET route_points == IF ts[t].full_route # <<>> THEN ts[t].full_route
                           ELSE ts[t].route
       IN NearestSegment(p, ts, t + 1,
            IF Len(route_points) < 2 THEN best
            ELSE NearestInRoute(p, ts[t].id, route_points, 1, best))

NoSegment == [km |-> Inf, route_id |-> None, start_idx |-> NoIdx, end_idx |-> NoIdx]

\* threshold = 1.0 km
Snapped(p, ts) ==
  LET n == NearestSegment(p, ts, 1, NoSegment) IN
  IF n.route_id # None /\ n.km <= 1 THEN n ELSE NoSegment

\* The disaster list with the new disaster appended, route-bound for
\* traffic and road blocks.
Placed(ds, ts, type, pos, radius_km) ==
  LET seg == IF type = "rain" THEN NoSegment ELSE Snapped(pos, ts)
      id == [type |-> type, n |-> Len(ds) + 1]
  IN Append(ds, Disaster(id, type, pos, radius_km, seg.route_id,
                         seg.start_idx, seg.end_idx))

create_disaster(type, pos, radius_km) ==
  /\ type \in {"rain", "traffic", "road_block"}
  /\ simulation_running
  /\ type \in {"traffic", "road_block"} => Snapped(pos, trucks).route_id # None
  /\ Op
  /\ disasters' = Placed(disasters, trucks, type, pos, radius_km)
  /\ UNCHANGED <<hubs, trucks, simulation_running, simulation_time,
                 initial_hubs_with_demand, simulation_phase, hubs_frozen,
                 loops_head, loops_sleep>>

\* A removal that takes the oldest disaster when the id matches none.
C25_remove_some(ds, disaster_id) ==
  IF \E k \in 1..Len(ds) : ds[k].id = disaster_id
  THEN SelectSeq(ds, LAMBDA d : d.id # disaster_id)
  ELSE IF ds = <<>> THEN ds ELSE Tail(ds)

\* [d for d in world_state.disasters if d.id != disaster_id]
Without(ds, disaster_id) == SelectSeq(ds, LAMBDA d : d.id # disaster_id)

\* The list is rebuilt first; an id that matched nothing is answered with
\* 404 after it.
remove_disaster(disaster_id) ==
  /\ Op
  /\ disasters' = Without(disasters, disaster_id)
  /\ UNCHANGED <<hubs, trucks, simulation_running, simulation_time,
                 initial_hubs_with_demand, simulation_phase, hubs_frozen,
                 loops_head, loops_sleep>>

\* The override applied to truck t of the registry, whatever its state.
C17_override_unblocked(ts, truck_id, action) ==
  LET t == Find(ts, truck_id) IN
  IF t = 0 THEN ts
  ELSE IF action = "clear_road"
  THEN [ts EXCEPT ![t].blocked_status = None, ![t].status = "idle"]
  ELSE [ts EXCEPT ![t].blocked_status = None, ![t].status = "returning",
                  ![t].route = get_road_route(ts[t].pos, Depot),
                  ![t].full_route = get_road_route(ts[t].pos, Depot),
                  ![t].current_route_index = 0]

\* The registry after POST /trucks/{truck_id}/override-block: the three
\* error returns leave it as it was.
override_block(ts, truck_id, action) ==
  LET t == Find(ts, truck_id) IN
  IF t = 0 THEN ts
  ELSE IF ts[t].blocked_status # "BLOCKED_WAITING_OVERRIDE" THEN ts
  ELSE IF action = "clear_road"
  THEN [ts EXCEPT ![t].blocked_status = None, ![t].status = "idle"]
  ELSE IF action = "return_to_depot"
  THEN [ts EXCEPT ![t].blocked_status = None, ![t].status = "returning",
                  ![t].route = get_road_route(ts[t].pos, Depot),
                  ![t].full_route = get_road_route(ts[t].pos, Depot),
                  ![t].current_route_index = 0]
  ELSE ts

override_truck_block(truck_id, action) ==
  /\ Op
  /\ trucks' = override_block(trucks, truck_id, action)
  /\ UNCHANGED <<hubs, disasters, simulation_running, simulation_time,
                 initial_hubs_with_demand, simulation_phase, hubs_frozen,
                 loops_head, loops_sleep>>

\* ------------------------------------- instructions and the decision log
\* The instruction fields of a truck and world_state.ai_decisions are not
\* part of the state; what a request does to them is given by its result:
\* whether it was answered with an error, the truck whose instruction fields
\* it wrote (0 for none) and the number of ai_decisions entries it appended.
send_instruction(ts, truck_id) ==
  LET t == Find(ts, truck_id) IN
  IF t = 0 THEN [error |-> TRUE, written |-> 0, decisions |-> 0]
  ELSE [error |-> FALSE, written |-> t, decisions |-> 1]

acknowledge_instruction(ts, truck_id, instruction_status) ==
  LET t == Find(ts, truck_id) IN
  IF t = 0 THEN [error |-> TRUE, written |-> 0, decisions |-> 0]
  ELSE [error |-> FALSE,
        written |-> IF instruction_status = "ACTIVE" THEN t ELSE 0,
        decisions |-> 0]

InstructionStatuses == {"ACTIVE", "ACKNOWLEDGED", None}

\* The ai_decisions entries appended by DELETE /disasters/{id}, by
\* POST /trucks/{id}/override-block and by PUT /hubs/{id}/intensity;
\* PUT /hubs/{id}/demand and DELETE /hubs/{id} append none.
remove_disaster_decisions(ds, disaster_id) ==
  IF Len(Without(ds, disaster_id)) = Len(ds) THEN 0 ELSE 1

override_block_decisions(ts, truck_id, action) ==
  LET t == Find(ts, truck_id) IN
  IF t # 0 /\ ts[t].blocked_status = "BLOCKED_WAITING_OVERRIDE"
     /\ action \in {"clear_road", "return_to_depot"}
  THEN 1 ELSE 0

demand_intensity_decisions(hs, ts, running, hub_id, intensity) ==
  LET i == Find(hs, hub_id) IN
  IF intensity \notin Priorities \/ i = 0 \/ ~running THEN 0
  ELSE IF get_urgency_weight(intensity) <= get_urgency_weight(hs[i].demand_intensity)
  THEN 0
  ELSE IF hs[i].ownership_state = ASSIGNED
  THEN (IF Find(ts, hs[i].owner_truck_id) # 0 THEN 1 ELSE 0)
  ELSE IF hs[i].ownership_state = UNASSIGNED /\ ~hs[i].frozen_at_commit
          /\ BestTruck(ts, [hs[i] EXCEPT !.demand_intensity = intensity], 1, 0) # 0
  THEN 1 ELSE 0

NoDisasterId == [type |-> "none", n |-> 0]

DisasterIds == {disasters[k].id : k \in 1..Len(disasters)} \cup {NoDisasterId}

Next ==
  \/ LoopCheck
  \/ Tick
  \/ \E fleet \in Fleets : upload_trucks(fleet)
  \/ start_sim
  \/ stop_sim
  \/ \E req \in HubRequests : create_hub_manual(req)
  \/ create_random_hubs
  \/ \E hub_id \in HubIds, upd \in DemandUpdates : update_hub_demand(hub_id, upd)
  \/ \E hub_id \in HubIds, intensity \in Intensities :
       update_demand_intensity(hub_id, intensity)
  \/ \E hub_id \in HubIds : delete_hub(hub_id)
  \/ \E type \in DisasterTypes, pos \in DisasterSites : create_disaster(type, pos, 5)
  \/ \E id \in DisasterIds : remove_disaster(id)
  \/ \E truck_id \in TruckIds, action \in OverrideActions :
       override_truck_block(truck_id, action)

Spec == Init /\ [][Next]_vars

\* ------------------------------------------------ statement-level threads
\* The same program with the statements of assign_hub_to_truck as separate
\* steps of the thread that runs them. simulation_loop is a threading.Thread
\* and every endpoint runs on a worker thread of the server; the module
\* takes no lock, so the steps of the two interleave freely. One loop
\* thread and one request thread are followed at this grain; the fleet is
\* replaced and a run is started only while both are outside an operation,
\* and the hub list is replaced only while neither holds a hub.
Others == <<disasters, simulation_running, initial_hubs_with_demand,
            simulation_phase, hubs_frozen>>

upload_trucks_quiet(fleet) ==
  /\ thr.sim.pc = "idle" /\ thr.req.pc = "idle"
  /\ upload_trucks(fleet)

start_sim_quiet ==
  /\ thr.sim.pc = "idle" /\ thr.req.pc = "idle"
  /\ start_sim

create_random_hubs_quiet ==
  /\ thr.sim.pc \in {"idle", "next"} /\ thr.req.pc = "idle"
  /\ create_random_hubs

\* time.sleep(1) is over: the clock advances and the for loop starts.
TickBegin ==
  /\ loops_sleep > 0
  /\ thr.sim.pc = "idle"
  /\ simulation_time < MaxTime
  /\ loops_sleep' = loops_sleep - 1
  /\ simulation_time' = simulation_time + 1
  /\ thr' = [thr EXCEPT !.sim =
               ThreadAt("next", 1, None, None, 0, NothingSeen, FALSE)]
  /\ UNCHANGED <<hubs, trucks, loops_head, nops, Others>>

\* The idle branch of this truck gets as far as the assign call at the end
\* of select_next_hub_locally.
CallsAssign(hs, truck) ==
  /\ truck.active
  /\ truck.status = "idle"
  /\ truck.future_task_queue = <<>>
  /\ is_at_safe_decision_point(truck)
  /\ BestOwned(hs, truck) = 0
  /\ BestCandidate(hs, truck) # 0

\* The body of the for loop for one truck, up to the assign call when the
\* truck makes one, to its end otherwise.
TickTruck ==
  /\ thr.sim.pc = "next"
  /\ thr.sim.ti <= Len(trucks)
  /\ LET ti == thr.sim.ti
         truck == trucks[ti]
         w == ProcessTruck([hubs |-> hubs, trucks |-> trucks, crashed |-> FALSE],
                           ti, disasters)
     IN IF CallsAssign(hubs, truck)
        THEN /\ thr' = [thr EXCEPT !.sim =
                          ThreadAt("check", ti, hubs[BestCandidate(hubs, truck)].id,
                                   truck.id, 0, NothingSeen, FALSE)]
             /\ UNCHANGED <<hubs, trucks>>
        ELSE /\ hubs' = w.hubs
             /\ trucks' = w.trucks
             /\ thr' = [thr EXCEPT !.sim =
                          IF w.crashed THEN Resting ELSE [@ EXCEPT !.ti = ti + 1]]
  /\ UNCHANGED <<simulation_time, loops_head, loops_sleep, nops, Others>>

\* The idle branch after select_next_hub_locally has returned.
TickDispatch ==
  /\ thr.sim.pc = "returned"
  /\ LET c == thr.sim
         w == Dispatch([hubs |-> hubs, trucks |-> trucks, crashed |-> FALSE], c.ti,
                       [hub |-> IF c.ok THEN c.hub_id ELSE None, hubs |-> hubs])
     IN /\ trucks' = w.trucks
        /\ thr' = [thr EXCEPT !.sim =
                     ThreadAt("next", c.ti + 1, None, None, 0, NothingSeen, FALSE)]
  /\ UNCHANGED <<hubs, simulation_time, loops_head, loops_sleep, nops, Others>>

\* The for loop is over: back to the head of the while loop.
TickEnd ==
  /\ thr.sim.pc = "next"
  /\ thr.sim.ti > Len(trucks)
  /\ thr' = [thr EXCEPT !.sim = Resting]
  /\ loops_head' = loops_head + 1
  /\ UNCHANGED <<hubs, trucks, simulation_time, loops_sleep, nops, Others>>

\* PUT /hubs/{hub_id}/intensity on a worker thread, for an escalation of an
\* UNASSIGNED hub that finds a truck: up to the assign call.
EscalateBegin(hub_id, intensity) ==
  /\ thr.req.pc = "idle"
  /\ simulation_running
  /\ hub_id # CENTRAL_HUB_ID
  /\ intensity \in Priorities
  /\ Find(hubs, hub_id) # 0
  /\ nops < MaxOps
  /\ LET i == Find(hubs, hub_id)
         new_weight == get_urgency_weight(intensity)
         h1 == [hubs EXCEPT ![i].demand_intensity = intensity]
         b == BestTruck(trucks, h1[i], 1, 0)
     IN /\ new_weight > get_urgency_weight(hubs[i].demand_intensity)
        /\ hubs[i].ownership_state = UNASSIGNED
        /\ ~hubs[i].frozen_at_commit
        /\ b # 0
        /\ hubs' = h1
        /\ thr' = [thr EXCEPT !.req =
                     ThreadAt("check", b, hub_id, trucks[b].id, new_weight,
                              NothingSeen, FALSE)]
  /\ nops' = nops + 1
  /\ UNCHANGED <<trucks, simulation_time, loops_head, loops_sleep, Others>>

\* The rest of the escalation and of the intensity update.
EscalateEnd ==
  /\ thr.req.pc = "returned"
  /\ LET c == thr.req
         ts == IF c.ok THEN GiveTask(hubs, trucks, c.ti, Task(c.hub_id, c.weight))
               ELSE trucks
     IN trucks' = RefreshQueues(hubs, ts, c.hub_id, c.weight)
  /\ thr' = [thr EXCEPT !.req = Resting]
  /\ UNCHANGED <<hubs, simulation_time, loops_head, loops_sleep, nops, Others>>

Threads == {"sim", "req"}

\* assign_hub_to_truck, the lookup and the three tests.
AssignCheck(th) ==
  /\ thr[th].pc = "check"
  /\ LET c == thr[th]
         i == Find(hubs, c.hub_id)
         seen == [ownership_state |-> hubs[i].ownership_state,
                  owner_truck_id |-> hubs[i].owner_truck_id]
     IN thr' = [thr EXCEPT ![th] =
          IF i = 0 THEN [c EXCEPT !.pc = "returned", !.ok = FALSE]
          ELSE IF hubs[i].ownership_state = ASSIGNED
          THEN [c EXCEPT !.pc = "returned", !.seen = seen,
                         !.ok = (hubs[i].owner_truck_id = c.truck_id)]
          ELSE IF hubs[i].ownership_state = COMPLETED
          THEN [c EXCEPT !.pc = "returned", !.seen = seen, !.ok = FALSE]
          ELSE [c EXCEPT !.pc = "set_state", !.seen = seen]]
  /\ UNCHANGED <<hubs, trucks, simulation_time, loops_head, loops_sleep, nops, Others>>

\* hub.ownership_state = HubOwnershipState.ASSIGNED
AssignSetState(th) ==
  /\ thr[th].pc = "set_state"
  /\ hubs' = [hubs EXCEPT ![Find(hubs, thr[th].hub_id)].ownership_state = ASSIGNED]
  /\ thr' = [thr EXCEPT ![th].pc = "set_owner"]
  /\ UNCHANGED <<trucks, simulation_time, loops_head, loops_sleep, nops, Others>>

\* hub.owner_truck_id = truck_id; return True
AssignSetOwner(th) ==
  /\ thr[th].pc = "set_owner"
  /\ hubs' = [hubs EXCEPT ![Find(hubs, thr[th].hub_id)].owner_truck_id =
                thr[th].truck_id]
  /\ thr' = [thr EXCEPT ![th].pc = "returned", ![th].ok = TRUE]
  /\ UNCHANGED <<trucks, simulation_time, loops_head, loops_sleep, nops, Others>>

NextRace ==
  \/ \E fleet \in Fleets : upload_trucks_quiet(fleet)
  \/ start_sim_quiet
  \/ create_random_hubs_quiet
  \/ LoopCheck
  \/ TickBegin
  \/ TickTruck
  \/ TickDispatch
  \/ TickEnd
  \/ \E hub_id \in HubIds, intensity \in Intensities : EscalateBegin(hub_id, intensity)
  \/ EscalateEnd
  \/ \E th \in Threads : AssignCheck(th)
  \/ \E th \in Threads : AssignSetState(th)
  \/ \E th \in Threads : AssignSetOwner(th)

SpecRace == Init /\ [][NextRace]_vars

\* ================================================================ claims
HubIdx == 1..Len(hubs)

TruckIdx == 1..Len(trucks)

Blocked == "BLOCKED_WAITING_OVERRIDE"

\* The trucks of the registry whose owned set holds this hub.
Owners(hub_id) ==
  {t \in TruckIdx : hub_id \in Range(get_truck_owned_hubs(hubs, trucks[t].id))}

\* C1: every ASSIGNED hub is in the owned set of exactly one truck of the
\* truck registry, and no hub is in the owned sets of two different trucks.
C1_ExclusiveOwnership ==
  \A i \in HubIdx :
    /\ hubs[i].ownership_state = ASSIGNED => Cardinality(Owners(hubs[i].id)) = 1
    /\ Cardinality(Owners(hubs[i].id)) <= 1

\* C2: after every completed tick and external operation, a hub's
\* owner_truck_id is non-null exactly when its ownership_state is ASSIGNED.
C2_OwnerIffAssigned ==
  \A i \in HubIdx :
    (hubs[i].owner_truck_id # None) <=> (hubs[i].ownership_state = ASSIGNED)

\* An owned hub, and a hub released as COMPLETED by a delivery.
C2_Witness ==
  /\ \E i \in HubIdx : hubs[i].ownership_state = ASSIGNED /\ hubs[i].owner_truck_id # None
  /\ \E i \in HubIdx : hubs[i].ownership_state = COMPLETED /\ hubs[i].owner_truck_id = None

\* C3: assign fails without mutation for a missing hub, a hub ASSIGNED to
\* another truck or a COMPLETED hub; succeeds without mutation for a hub
\* already ASSIGNED to the same truck; otherwise succeeds and leaves exactly
\* that hub ASSIGNED to the truck, every other hub as it was.
C3_AssignContract ==
  \A hub_id \in HubIds, truck_id \in TruckIds :
    LET r == assign_hub_to_truck(hubs, hub_id, truck_id)
        present == \E i \in HubIdx : hubs[i].id = hub_id
        i == CHOOSE i \in HubIdx : hubs[i].id = hub_id
    IN IF ~present THEN ~r.ok /\ r.hubs = hubs
       ELSE IF hubs[i].ownership_state = COMPLETED THEN ~r.ok /\ r.hubs = hubs
       ELSE IF hubs[i].ownership_state = ASSIGNED
            THEN r.hubs = hubs /\ (r.ok <=> hubs[i].owner_truck_id = truck_id)
       ELSE /\ r.ok
            /\ r.hubs = [hubs EXCEPT ![i] = [hubs[i] EXCEPT !.ownership_state = ASSIGNED,
                                                           !.owner_truck_id = truck_id]]

\* A registry where assign meets all its cases: a hub owned by one of two
\* registered trucks, a COMPLETED hub, and an UNASSIGNED one.
C3_Witness ==
  /\ \E i \in HubIdx, t, u \in TruckIdx :
       /\ hubs[i].ownership_state = ASSIGNED
       /\ hubs[i].owner_truck_id = trucks[t].id
       /\ trucks[u].id # trucks[t].id
  /\ \E i \in HubIdx : hubs[i].ownership_state = COMPLETED
  /\ \E i \in HubIdx : hubs[i].ownership_state = UNASSIGNED

\* C4: a hub that is COMPLETED stays COMPLETED for as long as it exists,
\* whatever tick or external operation follows (the bulk replacement, which
\* creates new hubs under the old ids, aside).
C4_CompletedIsFinal ==
  [][create_random_hubs
     \/ \A i \in HubIdx : hubs[i].ownership_state = COMPLETED =>
          \A j \in 1..Len(hubs') : hubs'[j].id = hubs[i].id =>
            hubs'[j].ownership_state = COMPLETED]_vars

\* C5: whenever the commit planner returns success, every non-depot hub that
\* had positive demand when it began is ASSIGNED and frozen_at_commit.
C5_CommitAssignsAndFreezes ==
  LET r == assign_hubs_to_trucks(hubs, trucks, initial_hubs_with_demand) IN
  r.ok => \A i \in HubIdx :
            hubs[i].id # CENTRAL_HUB_ID /\ hubs[i].demand_quantity > 0 =>
              /\ r.hubs[i].ownership_state = ASSIGNED
              /\ r.hubs[i].frozen_at_commit

\* A successful commit of a non-empty demand set has run.
C5_Witness ==
  /\ simulation_phase = "executing"
  /\ initial_hubs_with_demand # <<>>
  /\ \E i \in HubIdx : hubs[i].frozen_at_commit /\ hubs[i].ownership_state = ASSIGNED

Ownership(hs) ==
  [i \in 1..Len(hs) |-> <<hs[i].id, hs[i].ownership_state, hs[i].owner_truck_id,
                          hs[i].frozen_at_commit>>]

\* C6: a start whose commit fails leaves every hub's ownership_state,
\* owner_truck_id and frozen_at_commit, the simulation_phase and hubs_frozen
\* as they were before the start.
C6_FailedStartRestores ==
  [][start_sim /\ ~assign_hubs_to_trucks(hubs, trucks, initial_hubs_with_demand).ok
     => /\ Ownership(hubs') = Ownership(hubs)
        /\ simulation_phase' = simulation_phase
        /\ hubs_frozen' = hubs_frozen]_vars

\* C7: whenever a step makes a truck the owner of a hub it did not own, that
\* truck's fuel covers truck -> hub -> depot at the fuel rate.
C7_AssignmentsFuelFeasible ==
  [][\A j \in 1..Len(hubs'), t \in TruckIdx :
       /\ hubs'[j].ownership_state = ASSIGNED
       /\ hubs'[j].owner_truck_id = trucks[t].id
       /\ ~\E i \in HubIdx : /\ hubs[i].id = hubs'[j].id
                             /\ hubs[i].ownership_state = ASSIGNED
                             /\ hubs[i].owner_truck_id = trucks[t].id
       => is_fuel_feasible_with_return(trucks[t], hubs'[j])]_vars

\* C8: a start with a demand hub that no active truck can round-trip from
\* the depot on its current fuel fails, leaving every hub UNASSIGNED and no
\* truck with a route plan, queued task or current task.
C8_InfeasibleCommitFails ==
  [][start_sim
     /\ (\E i \in HubIdx :
           /\ hubs[i].demand_quantity > 0
           /\ \A t \in TruckIdx :
                trucks[t].active =>
                  trucks[t].fuel_remaining < FuelFor(2 * haversine(Depot, hubs[i].pos)))
     => /\ simulation_phase' = "pre_start"
        /\ \A j \in 1..Len(hubs') : hubs'[j].ownership_state = UNASSIGNED
        /\ \A t \in 1..Len(trucks') :
             /\ trucks'[t].route_plan = <<>>
             /\ trucks'[t].future_task_queue = <<>>
             /\ trucks'[t].current_task = NoTask]_vars

\* C9: a moving truck with waypoints left keeps its route's waypoints and
\* its current task's hub across every tick and external operation (a fleet
\* upload, which replaces the trucks, aside), unless a road block stops it.
C9_MovingLegLocked ==
  [][(\E fleet \in Fleets : upload_trucks(fleet))
     \/ \A t \in TruckIdx :
          trucks[t].status = "moving"
          /\ trucks[t].current_route_index < Len(trucks[t].route)
          => \/ /\ trucks'[t].route = trucks[t].route
                /\ trucks'[t].current_task.hub_id = trucks[t].current_task.hub_id
             \/ /\ Tick
                /\ trucks'[t].blocked_status = Blocked
                /\ trucks'[t].status = "idle"]_vars

\* Not at a safe decision point, in the specification's words: moving, or
\* under way and away from the depot.
C10_NotSafe(truck) ==
  truck.status = "moving" \/ (truck.status # "idle" /\ truck.pos # Depot)

\* C10: the safe-decision-point predicate is false for a moving truck, and
\* for a truck that is not at a safe decision point the hub selection, the
\* route extension and the queue reorder select nothing and change neither
\* the hub registry nor the truck.
C10_NoDecisionOffSafePoint ==
  \A t \in TruckIdx :
    /\ trucks[t].status = "moving" => ~is_at_safe_decision_point(trucks[t])
    /\ C10_NotSafe(trucks[t]) =>
         /\ select_next_hub_locally(hubs, trucks[t]) = [hub |-> None, hubs |-> hubs]
         /\ extend_route_if_efficient(hubs, trucks[t]) = [hub |-> None, hubs |-> hubs]
         /\ reorder_task_queue_at_decision_point(hubs, trucks[t]) = trucks[t]

\* A moving truck at the depot's position that owns a hub it could select
\* and has a queue it could reorder.
C10_Witness ==
  \E t \in TruckIdx :
    /\ trucks[t].status = "moving"
    /\ trucks[t].pos = Depot
    /\ trucks[t].future_task_queue # <<>>
    /\ BestOwned(hubs, trucks[t]) # 0

\* The hubs a truck id owns, as a set.
OwnedSet(hs, truck_id) == Range(get_truck_owned_hubs(hs, truck_id))

\* The hub of this id is in this ownership state and the step raises its
\* demand intensity while the simulation runs.
Escalates(hub_id, intensity, state) ==
  /\ update_demand_intensity(hub_id, intensity)
  /\ simulation_running
  /\ intensity \in Priorities
  /\ LET i == Find(hubs, hub_id) IN
     /\ i # 0
     /\ hubs[i].ownership_state = state
     /\ get_urgency_weight(intensity) > get_urgency_weight(hubs[i].demand_intensity)

\* Exactly one truck of the registry gains the hub, the others' owned sets
\* are as they were.
GainsOne(hub_id) ==
  \E t \in TruckIdx :
    /\ hub_id \notin OwnedSet(hubs, trucks[t].id)
    /\ OwnedSet(hubs', trucks[t].id) = OwnedSet(hubs, trucks[t].id) \cup {hub_id}
    /\ \A u \in TruckIdx :
         trucks[u].id # trucks[t].id =>
           OwnedSet(hubs', trucks[u].id) = OwnedSet(hubs, trucks[u].id)

\* Some active truck's fuel covers truck -> hub -> depot.
SomeTruckFeasible(hub_id) ==
  \E t \in TruckIdx :
    trucks[t].active /\ is_fuel_feasible_with_return(trucks[t], hubs[Find(hubs, hub_id)])

\* C11 (as stated): raising the intensity of an UNASSIGNED, non-frozen hub
\* while the simulation runs makes exactly one truck its owner within that
\* operation and changes no other truck's owned set.
C11_EscalationAssignsOne ==
  [][\A hub_id \in HubIds, intensity \in Intensities :
       Escalates(hub_id, intensity, UNASSIGNED)
       /\ ~hubs[Find(hubs, hub_id)].frozen_at_commit
       => GainsOne(hub_id)]_vars

\* C11 (amended): the same operation makes exactly one truck the owner when
\* some active truck's fuel covers truck -> hub -> depot, and changes no
\* hub's ownership when none does.
C11_EscalationAssignsOneIfFeasible ==
  [][\A hub_id \in HubIds, intensity \in Intensities :
       Escalates(hub_id, intensity, UNASSIGNED)
       /\ ~hubs[Find(hubs, hub_id)].frozen_at_commit
       => IF SomeTruckFeasible(hub_id) THEN GainsOne(hub_id)
          ELSE Ownership(hubs') = Ownership(hubs)]_vars

\* A running simulation in which a truck holds a task for an Emergency hub
\* it owns and that no commit froze.
C11_Witness ==
  /\ simulation_running
  /\ \E i \in HubIdx, t \in TruckIdx :
       /\ hubs[i].demand_intensity = "Emergency"
       /\ hubs[i].ownership_state = ASSIGNED
       /\ ~hubs[i].frozen_at_commit
       /\ hubs[i].owner_truck_id = trucks[t].id
       /\ trucks[t].current_task = Task(hubs[i].id, 10)

\* The tasks a truck holds for a hub: queued ones and the current one.
TaskCount(truck, hub_id) ==
  Cardinality({k \in 1..Len(truck.future_task_queue) :
                 truck.future_task_queue[k].hub_id = hub_id})
  + (IF truck.current_task.hub_id = hub_id THEN 1 ELSE 0)

\* C12: raising the intensity of an ASSIGNED hub while the simulation runs
\* leaves every hub's ownership as it was and gives no truck other than the
\* owner a task for that hub.
C12_EscalationKeepsOwner ==
  [][\A hub_id \in HubIds, intensity \in Intensities :
       Escalates(hub_id, intensity, ASSIGNED)
       => /\ Ownership(hubs') = Ownership(hubs)
          /\ \A t \in TruckIdx :
               trucks[t].id # hubs[Find(hubs, hub_id)].owner_truck_id =>
                 TaskCount(trucks'[t], hub_id) <= TaskCount(trucks[t], hub_id)]_vars

\* A running simulation with two trucks, one of them owning a committed hub
\* whose intensity stands at Emergency.
C12_Witness ==
  /\ simulation_running
  /\ \E i \in HubIdx, t, u \in TruckIdx :
       /\ hubs[i].demand_intensity = "Emergency"
       /\ hubs[i].ownership_state = ASSIGNED
       /\ hubs[i].frozen_at_commit
       /\ hubs[i].owner_truck_id = trucks[t].id
       /\ trucks[u].id # trucks[t].id

\* The hubs a commit took on, by registry index.
Committed(hs, initial) ==
  {i \in 1..Len(hs) : \E k \in 1..Len(initial) : initial[k] = hs[i].id}

\* Every committed hub is done and every active truck is home and refuelled.
Settled(hs, ts, initial) ==
  /\ \A i \in Committed(hs, initial) :
       hs[i].ownership_state = COMPLETED /\ hs[i].demand_quantity = 0
  /\ \A t \in 1..Len(ts) :
       ts[t].active =>
         /\ ts[t].status = "idle"
         /\ ts[t].pos = Depot
         /\ ts[t].fuel_remaining = ts[t].fuel_capacity
         /\ ts[t].future_task_queue = <<>>
         /\ ts[t].current_task = NoTask

\* A full tank of any active truck covers depot -> hub -> depot for every
\* committed hub.
FullTankReaches(hs, ts, initial) ==
  \A i \in Committed(hs, initial), t \in 1..Len(ts) :
    ts[t].active => FuelFor(2 * haversine(Depot, hs[i].pos)) <= ts[t].fuel_capacity

\* No tick changes this world any more: the tick body maps it to itself.
AtRest(hs, ts) ==
  TickBody(hs, ts, <<>>) = [hubs |-> hs, trucks |-> ts, crashed |-> FALSE]

\* C13: after a successful commit with no disaster and every committed hub
\* within a full tank's round trip, ticking alone eventually completes every
\* committed hub and brings every active truck home idle and refuelled; so a
\* successful start that leaves a world no tick changes has left it so.
C13_CommittedRunSettles ==
  LET r == assign_hubs_to_trucks(hubs, trucks, initial_hubs_with_demand)
      ts == initialize_task_queues_from_route_plans(r.hubs, r.trucks)
  IN r.ok /\ disasters = <<>> /\ FullTankReaches(r.hubs, ts, r.initial)
     /\ AtRest(r.hubs, ts)
     => Settled(r.hubs, ts, r.initial)

\* C14: a tick never raises while it processes a truck, whatever the state
\* of that truck's queue: the loop's thread gets through every tick it starts.
C14_TickNeverRaises ==
  loops_sleep > 0 => ~TickBody(hubs, trucks, disasters).crashed

\* C15: a tick leaves a truck that is blocked and waiting for an override
\* idle, with an empty route, the same task and the block still on.
C15_BlockedStaysPut ==
  [][Tick => \A t \in TruckIdx :
       trucks[t].blocked_status = Blocked /\ trucks[t].status = "idle"
       /\ trucks[t].route = <<>>
       => /\ trucks'[t].status = "idle"
          /\ trucks'[t].route = <<>>
          /\ trucks'[t].current_task = trucks[t].current_task
          /\ trucks'[t].blocked_status = Blocked]_vars

\* C20: with the simulation stopped (the stop has returned and no start has
\* followed), the tick loop changes no hub, no truck and not the clock.
C20_StoppedLoopIsQuiet ==
  [][Tick /\ ~simulation_running
     => hubs' = hubs /\ trucks' = trucks /\ simulation_time' = simulation_time]_vars

\* A moving, active truck with waypoints left.
EnRoute(t) ==
  /\ trucks[t].active
  /\ trucks[t].status = "moving"
  /\ trucks[t].current_route_index < Len(trucks[t].route)

\* The waypoints the truck has still to reach.
Remaining(t) ==
  {trucks[t].route[j] : j \in (trucks[t].current_route_index + 1)..Len(trucks[t].route)}

\* The truck was stopped by a road block.
Stopped(truck) ==
  truck.status = "idle" /\ truck.blocked_status = Blocked /\ truck.route = <<>>

RoadBlocks == {k \in 1..Len(disasters) :
                 disasters[k].disaster_type = "road_block" /\ disasters[k].active}

\* C16 (as stated): when a road block is placed on a waypoint a moving
\* truck has still to reach, the next tick leaves that truck idle, blocked
\* and without a route.
C16_RoadBlockStopsNextTick ==
  simulation_running /\ loops_head + loops_sleep > 0 =>
    \A pos \in DisasterSites :
      Snapped(pos, trucks).route_id # None =>
        LET w == TickBody(hubs, trucks, Placed(disasters, trucks, "road_block", pos, 5))
        IN \A t \in TruckIdx :
             EnRoute(t) /\ pos \in Remaining(t) => Stopped(w.trucks[t])

\* C16 (amended): a tick leaves a moving truck idle, blocked and without a
\* route exactly when the waypoint it advances to lies within the radius of
\* an active road block; otherwise the truck is still moving after the tick.
C16_RoadBlockStopsOnContact ==
  [][Tick => \A t \in TruckIdx :
       EnRoute(t) =>
         LET p == trucks[t].route[trucks[t].current_route_index + 1] IN
         IF \E k \in RoadBlocks : contains_point(disasters[k], p)
         THEN Stopped(trucks'[t]) /\ trucks'[t].pos = p
         ELSE trucks'[t].status = "moving" /\ trucks'[t].route = trucks[t].route]_vars

\* A truck stopped where an active road block lies.
C16_Witness ==
  \E t \in TruckIdx, k \in RoadBlocks :
    /\ Stopped(trucks[t])
    /\ contains_point(disasters[k], trucks[t].pos)
    /\ trucks[t].current_task # NoTask

\* C17: override-block changes a truck only when it exists, is blocked and
\* the action is clear_road or return_to_depot. clear_road leaves it idle
\* with the block cleared; return_to_depot leaves it unblocked, returning,
\* at route index 0 of a non-empty route that ends at the depot; every
\* other call changes no truck field. Hubs are never touched.
C17_OverrideContract ==
  [][\A truck_id \in TruckIds, action \in OverrideActions :
       override_truck_block(truck_id, action) =>
         LET t == Find(trucks, truck_id) IN
         /\ hubs' = hubs
         /\ IF t # 0 /\ trucks[t].blocked_status = Blocked
                     /\ action \in {"clear_road", "return_to_depot"}
            THEN /\ \A u \in TruckIdx \ {t} : trucks'[u] = trucks[u]
                 /\ Len(trucks') = Len(trucks)
                 /\ trucks'[t].blocked_status = None
                 /\ IF action = "clear_road"
                    THEN trucks'[t].status = "idle"
                    ELSE /\ trucks'[t].status = "returning"
                         /\ trucks'[t].current_route_index = 0
                         /\ trucks'[t].route # <<>>
                         /\ trucks'[t].route[Len(trucks'[t].route)] = Depot
            ELSE trucks' = trucks]_vars

\* A truck sent home by an override from where the road block stopped it,
\* next to a truck that is not blocked.
C17_Witness ==
  \E t, u \in TruckIdx :
    /\ trucks[t].status = "returning" /\ trucks[t].blocked_status = None
    /\ trucks[t].current_route_index = 0 /\ trucks[t].pos # Depot
    /\ trucks[t].current_task # NoTask
    /\ u # t /\ trucks[u].blocked_status = None

\* The thread is inside a call of assign_hub_to_truck or has just returned
\* from it.
InCall(th) == thr[th].pc \in {"check", "set_state", "set_owner", "returned"}

\* The call read a hub that was ASSIGNED and had no owner.
SawTorn(th) ==
  thr[th].seen.ownership_state = ASSIGNED /\ thr[th].seen.owner_truck_id = None

\* C18: the steps of the tick's processing of a truck and the steps of an
\* external operation never interleave, and no operation reads a hub record
\* that another one has only partly updated.
C18_Serialized ==
  /\ ~(InCall("sim") /\ InCall("req"))
  /\ \A th \in Threads : ~SawTorn(th)

\* C19: when the tick loop and an escalation claim the same hub for two
\* different trucks, at most one of the two assign calls returns success.
C19_AssignIsAtomic ==
  ~(/\ thr.sim.pc = "returned" /\ thr.req.pc = "returned"
    /\ thr.sim.hub_id = thr.req.hub_id
    /\ thr.sim.truck_id # thr.req.truck_id
    /\ thr.sim.ok /\ thr.req.ok)

\* The ids in a hub registry.
IdsOf(hs) == {hs[i].id : i \in 1..Len(hs)}

\* C21: while hubs_frozen is true no step adds a hub id to the registry.
C21_FrozenRegistryGainsNoHub ==
  [][hubs_frozen /\ hubs_frozen' => IdsOf(hubs') \subseteq IdsOf(hubs)]_vars

\* C22: a hub whose frozen_at_commit is true keeps it true in every step
\* that keeps the hub (the replacement of the registry by POST /hubs/random
\* makes new hubs and is not counted).
C22_FrozenAtCommitStays ==
  [][~create_random_hubs =>
       \A i \in 1..Len(hubs), j \in 1..Len(hubs') :
         hubs[i].frozen_at_commit /\ hubs'[j].id = hubs[i].id
           => hubs'[j].frozen_at_commit]_vars

\* C23: after every step, the current task of a truck names a hub of the
\* registry that is ASSIGNED to that truck.
C23_CurrentTaskOwned ==
  \A t \in TruckIdx :
    trucks[t].current_task # NoTask =>
      \E i \in HubIdx : /\ hubs[i].id = trucks[t].current_task.hub_id
                        /\ hubs[i].ownership_state = ASSIGNED
                        /\ hubs[i].owner_truck_id = trucks[t].id

\* The hubs a queue names, in order.
QueueIds(truck) ==
  [k \in 1..Len(truck.future_task_queue) |-> truck.future_task_queue[k].hub_id]

\* The truck is on a leg, short of its last waypoint.
MidLeg(truck) ==
  truck.status = "moving" /\ truck.current_route_index < Len(truck.route)

\* C24: no step adds, removes or reorders the queue entries of a truck that
\* is moving on a leg (a fleet upload replaces the trucks and is not
\* counted).
C24_QueueFixedWhileMoving ==
  [][\A t \in TruckIdx :
       /\ MidLeg(trucks[t])
       /\ t <= Len(trucks') /\ trucks'[t].id = trucks[t].id
       /\ ~(\E fleet \in Fleets : upload_trucks(fleet))
       => QueueIds(trucks'[t]) = QueueIds(trucks[t])]_vars

\* An id that names no hub and no truck.
Unknown == "NOPE"

\* The step leaves every hub, truck and disaster as it was.
NothingWritten == hubs' = hubs /\ trucks' = trucks /\ disasters' = disasters

\* C25: a demand update, intensity update, hub delete, disaster removal,
\* override-block, instruction or acknowledgement that names an unknown id
\* changes no hub, truck or disaster, writes no instruction field and
\* appends nothing to the decision log; the instruction requests and the
\* override answer with an error.
C25_UnknownIdChangesNothing ==
  [][/\ \A upd \in DemandUpdates : update_hub_demand(Unknown, upd) => NothingWritten
     /\ \A intensity \in Intensities :
          update_demand_intensity(Unknown, intensity)
            => /\ NothingWritten
               /\ demand_intensity_decisions(hubs, trucks, simulation_running,
                                             Unknown, intensity) = 0
     /\ delete_hub(Unknown) => NothingWritten
     /\ remove_disaster(NoDisasterId)
          => NothingWritten /\ remove_disaster_decisions(disasters, NoDisasterId) = 0
     /\ \A action \in OverrideActions :
          override_truck_block(Unknown, action)
            => NothingWritten /\ override_block_decisions(trucks, Unknown, action) = 0
     /\ send_instruction(trucks, Unknown)
          = [error |-> TRUE, written |-> 0, decisions |-> 0]
     /\ \A st \in InstructionStatuses :
          acknowledge_instruction(trucks, Unknown, st)
            = [error |-> TRUE, written |-> 0, decisions |-> 0]]_vars

\* A request with an unknown id was answered while hubs, trucks (one of them
\* blocked) and disasters were there to be changed.
C25_Witness ==
  /\ nops > 0
  /\ hubs # <<>> /\ disasters # <<>>
  /\ \E t \in TruckIdx : trucks[t].blocked_status = Blocked
  /\ ENABLED remove_disaster(NoDisasterId)

\* C26: release with completed = true leaves the hub COMPLETED, delivered
\* and without owner; with completed = false it leaves it UNASSIGNED, without
\* owner and with delivered as it was; no other hub changes, and the release
\* of an unknown hub changes nothing.
C26_ReleaseContract ==
  \A hub_id \in HubIds, mark_completed \in BOOLEAN :
    LET r == release_hub_ownership(hubs, hub_id, mark_completed)
        i == Find(hubs, hub_id)
    IN IF i = 0 THEN r = hubs
       ELSE /\ Len(r) = Len(hubs)
            /\ \A j \in HubIdx \ {i} : r[j] = hubs[j]
            /\ r[i].owner_truck_id = None
            /\ r[i].id = hub_id
            /\ IF mark_completed
               THEN r[i].ownership_state = COMPLETED /\ r[i].delivered
               ELSE /\ r[i].ownership_state = UNASSIGNED
                    /\ r[i].delivered = hubs[i].delivered

\* A delivery has released one hub as COMPLETED while another hub is still
\* ASSIGNED and undelivered.
C26_Witness ==
  \E i, j \in HubIdx :
    /\ hubs[i].ownership_state = COMPLETED /\ hubs[i].delivered
    /\ hubs[i].owner_truck_id = None /\ hubs[i].demand_quantity = 0
    /\ hubs[j].ownership_state = ASSIGNED /\ ~hubs[j].delivered

\* C27: a truck that a tick takes from moving to returning then holds a
\* non-empty route that ends at the depot, and a returning truck that a tick
\* makes idle and unblocked (snapped to the depot, refuelled) had driven its
\* route to the depot before.
C27_ReturnsAlongRoute ==
  [][Tick => \A t \in TruckIdx :
       /\ trucks[t].status = "moving" /\ trucks'[t].status = "returning"
            => /\ trucks'[t].route # <<>>
               /\ trucks'[t].route[Len(trucks'[t].route)] = Depot
       /\ trucks[t].active /\ trucks[t].status = "returning"
          /\ trucks'[t].status = "idle" /\ trucks'[t].blocked_status = None
            => trucks[t].pos = Depot]_vars

\* The hub of the truck's current task is in the registry with demand left.
TaskStands(hs, truck) ==
  \E i \in 1..Len(hs) : /\ hs[i].id = truck.current_task.hub_id
                        /\ hs[i].demand_quantity > 0

\* C28: when an idle, unblocked truck holds a current task whose hub still
\* has demand, the leg a tick starts for it goes to that task's hub.
C28_IdleKeepsCurrentTask ==
  [][Tick => \A t \in TruckIdx :
       /\ trucks[t].active /\ trucks[t].status = "idle"
       /\ trucks[t].blocked_status = None
       /\ trucks[t].current_task # NoTask
       /\ TaskStands(hubs, trucks[t]) /\ TaskStands(hubs', trucks[t])
       /\ trucks'[t].status = "moving"
       => trucks'[t].current_task.hub_id = trucks[t].current_task.hub_id]_vars

\* C29: when a tick sends an idle truck on a leg, the fuel the truck has
\* covers its way to the hub of that leg and from there to the depot.
C29_DispatchCanReturn ==
  [][Tick => \A t \in TruckIdx :
       /\ trucks[t].active /\ trucks[t].status = "idle"
       /\ trucks'[t].status = "moving"
       => \E j \in 1..Len(hubs') :
            /\ hubs'[j].id = trucks'[t].current_task.hub_id
            /\ is_fuel_feasible_with_return(trucks[t], hubs'[j])]_vars

\* ------------------------------------------- flows during a failed restart
\* start_sim has no running guard, so a second start may find the loop of
\* the first one still ticking. When its commit fails, the rollback walks
\* the hubs and writes ownership_state, owner_truck_id and frozen_at_commit
\* of each with three separate statements; the loop and the intensity
\* endpoint run between them. The worlds below are the ones they can then
\* see: the hubs before position k are rolled back, hub k has lost its
\* ownership state (and, when owner_cleared, its owner) and is still
\* frozen, the hubs after k are as the first commit left them. hubs_frozen
\* and simulation_phase were reset before the walk began.
FirstRun(fleet) ==
  LET r == assign_hubs_to_trucks(FixedHubs, fleet, <<>>) IN
  [hubs |-> r.hubs,
   trucks |-> initialize_task_queues_from_route_plans(r.hubs, r.trucks),
   initial |-> r.initial]

MidRollback(hs, k, owner_cleared) ==
  [i \in 1..Len(hs) |->
     IF i < k THEN RollbackHubs(hs)[i]
     ELSE IF i = k
     THEN [hs[i] EXCEPT !.ownership_state = UNASSIGNED,
                        !.owner_truck_id = IF owner_cleared THEN None ELSE @]
     ELSE hs[i]]

InitFlows ==
  \E fleet \in {FleetA, FleetB}, k \in 1..Len(FixedHubs), owner_cleared \in BOOLEAN :
    /\ hubs = MidRollback(FirstRun(fleet).hubs, k, owner_cleared)
    /\ trucks = FirstRun(fleet).trucks
    /\ disasters = <<>>
    /\ simulation_running = TRUE
    /\ simulation_time = 0
    /\ initial_hubs_with_demand = FirstRun(fleet).initial
    /\ simulation_phase = "pre_start"
    /\ hubs_frozen = FALSE
    /\ loops_head = 1
    /\ loops_sleep = 0
    /\ nops = 0
    /\ thr = [sim |-> Resting, req |-> Resting]

NextFlows ==
  \/ LoopCheck
  \/ Tick
  \/ \E hub_id \in HubIds, intensity \in Intensities :
       update_demand_intensity(hub_id, intensity)

SpecFlows == InitFlows /\ [][NextFlows]_vars

FrozenFree(hub) == hub.frozen_at_commit /\ hub.ownership_state = UNASSIGNED

\* C30: none of the three execution-time flows assigns an UNASSIGNED hub
\* whose frozen_at_commit is true. Whatever truck select_next_hub_locally
\* or extend_route_if_efficient runs for, and whatever hub an intensity
\* change escalates, such a hub comes out of the flow as it went in:
\* UNASSIGNED and without an owner written by the flow.
C30_FrozenFreeHubStaysFree ==
  \A i \in HubIdx : FrozenFree(hubs[i]) =>
    /\ \A t \in TruckIdx :
         /\ select_next_hub_locally(hubs, trucks[t]).hubs[i] = hubs[i]
         /\ extend_route_if_efficient(hubs, trucks[t]).hubs[i] = hubs[i]
    /\ \A j \in HubIdx, intensity \in Priorities :
         LET h1 == [hubs EXCEPT ![j].demand_intensity = intensity] IN
         handle_demand_escalation(h1, trucks, hubs[j].id).hubs[i].ownership_state
           = UNASSIGNED

\* A tick has passed, an idle truck with nothing of its own to serve stands
\* where it could round-trip a frozen UNASSIGNED hub that still has demand,
\* and a hub that is not frozen has been claimed by a flow meanwhile.
C30_Witness ==
  /\ simulation_time > 0
  /\ \E i \in HubIdx, t \in TruckIdx :
       /\ FrozenFree(hubs[i])
       /\ hubs[i].demand_quantity > 0 /\ ~hubs[i].delivered
       /\ trucks[t].active /\ trucks[t].status = "idle"
       /\ is_at_safe_decision_point(trucks[t])
       /\ BestOwned(hubs, trucks[t]) = 0
       /\ is_fuel_feasible_with_return(trucks[t], hubs[i])
       /\ select_next_hub_locally(hubs, trucks[t]).hubs[i] = hubs[i]
  /\ \E j \in HubIdx : ~hubs[j].frozen_at_commit /\ hubs[j].ownership_state = ASSIGNED

\* ------------------------------------------------ local decision claims
\* The hubs a truck owns that have positive demand and that it can reach
\* and leave for the depot on its remaining fuel.
OwnedServable(hs, truck) ==
  {i \in 1..Len(hs) : /\ hs[i].ownership_state = ASSIGNED
                      /\ hs[i].owner_truck_id = truck.id
                      /\ hs[i].demand_quantity > 0
                      /\ is_fuel_feasible_with_return(truck, hs[i])}

\* C31: called at a safe decision point for a truck that owns a hub with
\* positive demand passing the round-trip fuel check,
\* select_next_hub_locally returns one of those owned hubs, with the
\* highest score among them, and changes no hub's ownership.
C31_SelectServesOwnedFirst ==
  \A t \in TruckIdx :
    is_at_safe_decision_point(trucks[t]) /\ OwnedServable(hubs, trucks[t]) # {} =>
      LET r == select_next_hub_locally(hubs, trucks[t]) IN
      /\ r.hubs = hubs
      /\ \E i \in OwnedServable(hubs, trucks[t]) :
           /\ hubs[i].id = r.hub
           /\ \A k \in OwnedServable(hubs, trucks[t]) :
                calculate_hub_score(trucks[t], hubs[i])
                  >= calculate_hub_score(trucks[t], hubs[k])

\* The hub ids of the entries of q that have weight w.
IdsAtWeight(q, w) ==
  LET s == SelectSeq(q, LAMBDA task : task.urgency_weight = w)
  IN [k \in 1..Len(s) |-> s[k].hub_id]

\* The hub ids of the entries of q whose hub exists, is ASSIGNED to truck_id
\* and has an intensity of weight w, in the order of q.
OwnedIdsAtWeight(hs, truck_id, q, w) ==
  LET s == SelectSeq(q, LAMBDA task :
             \E i \in 1..Len(hs) :
               /\ i = Find(hs, task.hub_id)
               /\ hs[i].ownership_state = ASSIGNED
               /\ hs[i].owner_truck_id = truck_id
               /\ get_urgency_weight(hs[i].demand_intensity) = w)
  IN [k \in 1..Len(s) |-> s[k].hub_id]

Weights == {get_urgency_weight(p) : p \in Priorities}

\* C32: after reorder_task_queue_at_decision_point ran for a truck at a safe
\* decision point with a non-empty queue, the queue holds exactly the former
\* entries whose hub exists and is ASSIGNED to the truck, each with the
\* weight of its hub's current demand_intensity, in non-increasing weight
\* order, entries of equal weight in their former relative order; the rest
\* of the truck is as before (the function writes to no hub).
C32_ReorderContract ==
  \A t \in TruckIdx :
    is_at_safe_decision_point(trucks[t]) /\ trucks[t].future_task_queue # <<>> =>
      LET after == reorder_task_queue_at_decision_point(hubs, trucks[t])
          q == after.future_task_queue
      IN /\ \A k \in 1..Len(q) : q[k].urgency_weight \in Weights
         /\ \A w \in Weights :
              IdsAtWeight(q, w)
                = OwnedIdsAtWeight(hubs, trucks[t].id, trucks[t].future_task_queue, w)
         /\ \A k \in 1..(Len(q) - 1) : q[k].urgency_weight >= q[k + 1].urgency_weight
         /\ after = [trucks[t] EXCEPT !.future_task_queue = q]

\* A truck at a safe decision point with two or more queued tasks, all of
\* them kept, that the reorder brings into another order.
C32_Witness ==
  \E t \in TruckIdx :
    /\ is_at_safe_decision_point(trucks[t])
    /\ LET q0 == trucks[t].future_task_queue
           q == reorder_task_queue_at_decision_point(hubs, trucks[t]).future_task_queue
       IN Len(q) = Len(q0) /\ Len(q) > 1 /\ q[1].hub_id # q0[1].hub_id
\* The hub ids of a queue, in order.
QueueOrder(q) == [k \in 1..Len(q) |-> q[k].hub_id]

\* C33: an intensity update, escalating or not, leaves the status, route,
\* route index and current_task of every moving truck as they were, and the
\* entries already in such a truck's queue keep their places: only weights
\* change and a new entry may follow them.
C33_IntensityLeavesMovingTrucks ==
  [][\A hub_id \in HubIds, intensity \in Intensities :
       update_demand_intensity(hub_id, intensity) =>
         /\ Len(trucks') = Len(trucks)
         /\ \A t \in TruckIdx : trucks[t].status = "moving" =>
              /\ trucks'[t].status = "moving"
              /\ trucks'[t].route = trucks[t].route
              /\ trucks'[t].full_route = trucks[t].full_route
              /\ trucks'[t].current_route_index = trucks[t].current_route_index
              /\ trucks'[t].current_task = trucks[t].current_task
              /\ Len(trucks'[t].future_task_queue) >= Len(trucks[t].future_task_queue)
              /\ SubSeq(QueueOrder(trucks'[t].future_task_queue), 1,
                        Len(trucks[t].future_task_queue))
                   = QueueOrder(trucks[t].future_task_queue)]_vars

\* A moving truck whose second queued hub has been raised to Emergency over
\* a first one of lower weight: the order a reorder would have changed.
C33_Witness ==
  /\ simulation_running
  /\ \E t \in TruckIdx :
       /\ trucks[t].status = "moving"
       /\ Len(trucks[t].future_task_queue) >= 2
       /\ trucks[t].future_task_queue[1].urgency_weight
            < trucks[t].future_task_queue[2].urgency_weight
       /\ trucks[t].future_task_queue[2].urgency_weight = get_urgency_weight("Emergency")
\* ------------------------------------------------------- commit claims
\* A step of start_sim whose commit succeeded: the request was counted and
\* a loop thread was started.
StartSucceeds == nops' = nops + 1 /\ loops_head' = loops_head + 1

\* The sort key of the corridor sort: priority class, then depot distance.
ComesBefore(a, b) ==
  \/ priority_order(a.demand_priority) < priority_order(b.demand_priority)
  \/ /\ priority_order(a.demand_priority) = priority_order(b.demand_priority)
     /\ haversine(Depot, a.pos) < haversine(Depot, b.pos)

PlacesOf(route_plan, hub_id) == {k \in 1..Len(route_plan) : route_plan[k] = hub_id}

\* Two hubs of the committed set that lie in one corridor and are assigned
\* to truck: a sorts ahead of b.
PairOfCorridor(initial, truck, a, b) ==
  /\ a.id \in Range(initial)
  /\ b.id \in Range(initial)
  /\ a.ownership_state = ASSIGNED /\ a.owner_truck_id = truck.id
  /\ b.ownership_state = ASSIGNED /\ b.owner_truck_id = truck.id
  /\ angle_bin(a.pos) = angle_bin(b.pos)
  /\ ComesBefore(a, b)

DemandKept ==
  /\ Len(hubs') = Len(hubs)
  /\ \A i \in 1..Len(hubs) : hubs'[i].demand_quantity = hubs[i].demand_quantity

C35_OneTickLoop == loops_head + loops_sleep <= 1

\* C36: a tick lowers a hub's demand_quantity (a truck's arrival step
\* delivers there) only when a moving truck holds that hub as its current
\* task and the hub is ASSIGNED to that very truck as the tick begins.
C36_DeliveryOnlyToOwnedHub ==
  [][Tick =>
       \A i \in HubIdx :
         hubs'[i].demand_quantity < hubs[i].demand_quantity =>
           \E t \in TruckIdx :
             /\ trucks[t].status = "moving"
             /\ trucks[t].current_task.hub_id = hubs[i].id
             /\ hubs[i].ownership_state = ASSIGNED
             /\ hubs[i].owner_truck_id = trucks[t].id]_vars

\* C37: after a successful start every hub of the committed demand set is
\* owned by a truck of the registry that is active.
C37_CommittedHubsHaveLiveOwner ==
  [][StartSucceeds =>
       \A i \in 1..Len(hubs') :
         hubs'[i].id \in Range(initial_hubs_with_demand') =>
           /\ hubs'[i].ownership_state = ASSIGNED
           /\ \E t \in 1..Len(trucks') :
                trucks'[t].id = hubs'[i].owner_truck_id /\ trucks'[t].active]_vars

\* C38: after every tick and every external operation, a hub that is
\* ASSIGNED has demand_quantity > 0 and delivered = FALSE.
C38_AssignedHubHasDemand ==
  \A i \in HubIdx :
    hubs[i].ownership_state = ASSIGNED =>
      hubs[i].demand_quantity > 0 /\ ~hubs[i].delivered

\* C39: the ids of the disasters in the list are pairwise distinct.
C39_DisasterIdsDistinct ==
  \A a, b \in 1..Len(disasters) : a # b => disasters[a].id # disasters[b].id

====
